---- MODULE Spec2Model ----
(***************************************************************************)
(* State-machine model of the VisionTrack core: the squat state machine    *)
(* (modules/squat_tracker.py), the per-exercise detectors                  *)
(* (modules/fitness_analyzer.py), the alert sink (utils/alert_system.py),  *)
(* the surveillance event engine (modules/surveillance_analyzer.py), the   *)
(* centroid identity tracker (modules/person_detector.py), the multi-      *)
(* person coordinator (modules/squat_tracker.py) and the request threads   *)
(* of the web application (app.py).                                        *)
(*                                                                         *)
(* Angles are exact rationals.  They are held as integers in ticks of      *)
(* 1/120 degree: every mean of at most five readings that are themselves   *)
(* means of two whole-degree readings is a whole number of ticks.          *)
(***************************************************************************)
EXTENDS Integers, Sequences, FiniteSets, TLC

VARIABLES
    sq,          \* the SquatTracker object
    sq_result,   \* the dict returned by the last SquatTracker.update
    obs,         \* observer of the update history (not program state)
    det,         \* an ExerciseDetector object (its state field)
    now,         \* time.time(), in whole seconds
    alert_system,\* the AlertSystem object
    alert_out,   \* the last trigger_alert call: arguments, return value, side effects
    alert_obs,   \* observer of the deliveries per (alert_type, person_id)
    surv,        \* the SurveillanceAnalyzer object
    surv_out,    \* observer of the surveillance frames
    trk,         \* the SimplePersonTracker object
    trk_out,     \* observer of the tracker's updates
    trk_issued,  \* observer: the ids the tracker has given to new tracks so far
    ppl_trk,     \* a SimplePersonTracker object fed with the detections of known people
    ppl_out,     \* observer: which person was reported under which id
    msq,         \* the MultiPersonSquatTracker object
    msq_out,     \* observer of the last call on the MultiPersonSquatTracker
    web,         \* the VisionTrackApp object and the frame generators of the clients
    web_out,     \* observer: which thread last mutated analyzer state
    shared,      \* VisionTrackApp.stats, .frame and .lock, and the position of the frame loop
    shared_out,  \* observer: the last access to the shared fields and the snapshots read
    resolve_out, \* the last resolve_alert call: argument and return value
    cycle,       \* observer of the squat cycles of the SquatTracker object sq
    det_cycle,   \* observer of the angle cycles fed to the ExerciseDetector det
    fa,          \* a FitnessAnalyzer: current_exercise and the confidences of its detectors
    fa_out,      \* the last detect_exercise_type call: inputs and return value
    trim_out,    \* observer of the last add_alert call: the two alert lists before it
    hist,        \* observer of the frames of a long surveillance session
    fit,         \* a FitnessAnalyzer: mode, counters and the states of its detectors
    fit_out      \* observer of the last call on the FitnessAnalyzer fit

squat_vars == <<sq, sq_result, obs>>
det_vars == <<det>>
alert_vars == <<now, alert_system, alert_out, alert_obs>>
surv_vars == <<surv, surv_out>>
trk_vars == <<trk, trk_out, trk_issued>>
ppl_vars == <<ppl_trk, ppl_out>>
msq_vars == <<msq, msq_out>>
web_vars == <<web, web_out>>
shared_vars == <<shared, shared_out>>
resolve_vars == <<resolve_out>>
cycle_vars == <<cycle>>
det_cycle_vars == <<det_cycle>>
fa_vars == <<fa, fa_out>>
trim_vars == <<trim_out>>
hist_vars == <<hist>>
fit_vars == <<fit, fit_out>>
more_vars == <<hist_vars, fit_vars>>
ext_vars == <<ppl_vars, msq_vars, web_vars, shared_vars, resolve_vars, cycle_vars, det_cycle_vars,
              fa_vars, trim_vars, more_vars>>
vars == <<squat_vars, det_vars, alert_vars, surv_vars, trk_vars, ext_vars>>

----------------------------------------------------------------------------
(* Optional values: Python's None and a present value.                     *)
None == <<>>
Some(v) == <<v>>

Deg(d) == d * 120

SeqSum(s) ==
    LET RECURSIVE Acc(_)
        Acc(i) == IF i = 0 THEN 0 ELSE s[i] + Acc(i - 1)
    IN Acc(Len(s))

\* deque(maxlen=n).append / list tail slicing  xs[-n:]
LastN(s, n) == IF Len(s) <= n THEN s ELSE SubSeq(s, Len(s) - n + 1, Len(s))

\* if len(xs) > n: xs = xs[-n:]   for n >= 0.  xs[-0:] is xs[0:], the whole
\* list.
TrimTo(s, n) ==
    IF Len(s) > n
    THEN IF n = 0 THEN s ELSE SubSeq(s, Len(s) - n + 1, Len(s))
    ELSE s

----------------------------------------------------------------------------
(* Bounds of the model.                                                    *)
MaxStateFrames == 5     \* cap of SquatTracker.state_frame_count
MaxReps == 2            \* cap of SquatTracker.rep_count
MaxDetReps == 2         \* cap of ExerciseState.rep_count
ClockStart == 10        \* the clock reading at construction
MaxElapsed == 6         \* seconds of clock modelled after construction
MaxAlerts == 3          \* cap of AlertSystem.stats['total_alerts']
MaxPositions == 3       \* cap of the positions recorded by the surveillance tracks
MaxZones == 1           \* cap of the number of restricted zones
MaxSurvElapsed == 3     \* seconds of clock covered by a surveillance session
MaxSurvAlerts == 2      \* cap of the alerts delivered before a surveillance frame
MaxFrameCount == 33     \* cap of SimplePersonTracker.frame_count
MaxPersonIds == 2       \* cap of SimplePersonTracker.next_person_id
MaxPeopleFrames == 4    \* cap of frame_count of the tracker fed with known people
MaxPeopleIds == 4       \* cap of next_person_id of the tracker fed with known people
MaxMultiReps == 2       \* cap of rep_count of the trackers of a MultiPersonSquatTracker
MaxMultiElapsed == 1    \* seconds of clock covered by a multi-person session
MaxWebReps == 2         \* cap of FitnessAnalyzer.total_reps in the web application
MaxWebPeople == 2       \* cap of SurveillanceAnalyzer.total_people_detected in the web application
MaxWebZones == 2        \* cap of the restricted zones in the web application
MaxSharedFrames == 3    \* frames the frame loop stores in VisionTrackApp.frame
MaxAdded == 3           \* add_alert calls made on the analyzer of a long session
MaxHistFrames == 4      \* frames processed on top of the history of a long session
MaxFitFrames == 5       \* frames processed by the FitnessAnalyzer fit

----------------------------------------------------------------------------
(* modules/squat_tracker.py : SquatTracker                                 *)

upright_threshold == Deg(160)
squat_threshold == Deg(100)
good_depth_min == Deg(90)
good_depth_max == Deg(110)
smoothing_window == 5
min_state_duration == 3

SquatState == {"unknown", "standing", "descending", "bottom", "ascending"}

\* Results of calculate_knee_angle for one leg: a whole-degree angle, or
\* None when a joint is missing or the geometry is degenerate.
KneeAngles == {Deg(95), Deg(120), Deg(150), Deg(170)}
LegInputs ==
    {<<Some(a), Some(a)>> : a \in KneeAngles}
    \cup {<<Some(Deg(95)), None>>, <<None, Some(Deg(170))>>,
          <<Some(Deg(170)), Some(Deg(150))>>, <<None, None>>}

average_angles(left_angle, right_angle) ==
    IF left_angle # None /\ right_angle # None
    THEN Some((left_angle[1] + right_angle[1]) \div 2)
    ELSE IF left_angle # None THEN left_angle
    ELSE IF right_angle # None THEN right_angle
    ELSE None

SquatTracker_init ==
    [ current_state |-> "unknown",
      previous_state |-> "unknown",
      state_frame_count |-> 0,
      knee_angles |-> <<>>,
      smoothed_angle |-> None,
      min_angle_in_rep |-> None,
      rep_count |-> 0,
      current_depth_quality |-> "unknown",
      best_depth_angle |-> None,
      rep_angles |-> <<>> ]

\* Variant of append_angle without smoothing: the last raw reading is used.
append_angle_unsmoothed(t, current_angle) ==
    IF current_angle # None
    THEN [t EXCEPT !.knee_angles = LastN(Append(@, current_angle[1]), smoothing_window),
                   !.smoothed_angle = current_angle]
    ELSE t

\* update, lines 119-124: append the reading and recompute the mean
append_angle(t, current_angle) ==
    IF current_angle # None
    THEN LET ka == LastN(Append(t.knee_angles, current_angle[1]), smoothing_window)
         IN [t EXCEPT !.knee_angles = ka,
                      !.smoothed_angle = Some(SeqSum(ka) \div Len(ka))]
    ELSE t

\* Variant of determine_state that follows the trend of the angle in
\* ASCENDING as it does in DESCENDING and BOTTOM.
determine_state_trend_in_ascending(t, angle) ==
    IF angle > upright_threshold THEN "standing"
    ELSE IF angle < squat_threshold THEN "bottom"
    ELSE IF t.current_state = "standing" THEN "descending"
    ELSE IF t.current_state \in {"descending", "bottom", "ascending"} THEN
        IF Len(t.knee_angles) >= 2 THEN
            IF t.knee_angles[Len(t.knee_angles)] < t.knee_angles[Len(t.knee_angles) - 1]
            THEN "descending"
            ELSE "ascending"
        ELSE "descending"
    ELSE "descending"

determine_state(t, angle) ==
    IF angle > upright_threshold THEN "standing"
    ELSE IF angle < squat_threshold THEN "bottom"
    ELSE IF t.current_state = "standing" THEN "descending"
    ELSE IF t.current_state \in {"descending", "bottom"} THEN
        IF Len(t.knee_angles) >= 2 THEN
            IF t.knee_angles[Len(t.knee_angles)] < t.knee_angles[Len(t.knee_angles) - 1]
            THEN "descending"
            ELSE "ascending"
        ELSE "descending"
    ELSE IF t.current_state = "ascending" THEN "ascending"
    ELSE "descending"

update_state_machine(t) ==
    IF t.smoothed_angle = None THEN t
    ELSE LET new_state == determine_state(t, t.smoothed_angle[1]) IN
         IF new_state = t.current_state
         THEN [t EXCEPT !.state_frame_count = @ + 1]
         ELSE IF t.state_frame_count >= min_state_duration
              THEN [t EXCEPT !.previous_state = t.current_state,
                             !.current_state = new_state,
                             !.state_frame_count = 1]
              ELSE [t EXCEPT !.state_frame_count = @ + 1]

assess_squat_quality(t) ==
    IF t.current_state = "bottom" /\ t.smoothed_angle # None
    THEN LET a == t.smoothed_angle[1]
             m == IF t.min_angle_in_rep = None \/ a < t.min_angle_in_rep[1]
                  THEN Some(a) ELSE t.min_angle_in_rep
             q == IF good_depth_min <= a /\ a <= good_depth_max THEN "good"
                  ELSE IF a > good_depth_max THEN "shallow"
                  ELSE "too_deep"
         IN [t EXCEPT !.min_angle_in_rep = m, !.current_depth_quality = q]
    ELSE t

\* the condition of the first branch of _check_rep_completion
rep_completes(t) ==
    /\ t.previous_state = "ascending"
    /\ t.current_state = "standing"
    /\ t.min_angle_in_rep # None

\* Variant of check_rep_completion that forgets to clear min_angle_in_rep.
check_rep_completion_keeps_min(t) ==
    IF rep_completes(t)
    THEN [t EXCEPT !.rep_count = @ + 1,
                   !.rep_angles = Append(@, t.min_angle_in_rep[1]),
                   !.best_depth_angle =
                       IF @ = None \/ t.min_angle_in_rep[1] < @[1]
                       THEN t.min_angle_in_rep ELSE @]
    ELSE t

\* Variant of check_rep_completion that logs the best depth of the session
\* in place of the minimum of the rep.
check_rep_completion_logs_best(t) ==
    IF rep_completes(t)
    THEN LET best == IF t.best_depth_angle = None
                        \/ t.min_angle_in_rep[1] < t.best_depth_angle[1]
                     THEN t.min_angle_in_rep ELSE t.best_depth_angle
         IN [t EXCEPT !.rep_count = @ + 1,
                      !.rep_angles = Append(@, best[1]),
                      !.best_depth_angle = best,
                      !.min_angle_in_rep = None]
    ELSE t

check_rep_completion(t) ==
    IF rep_completes(t)
    THEN [t EXCEPT !.rep_count = @ + 1,
                   !.rep_angles = Append(@, t.min_angle_in_rep[1]),
                   !.best_depth_angle =
                       IF @ = None \/ t.min_angle_in_rep[1] < @[1]
                       THEN t.min_angle_in_rep ELSE @,
                   !.min_angle_in_rep = None]
    ELSE t

\* The tracker after one update call with the two knee angles.
SquatTracker_update(t, left_angle, right_angle) ==
    LET t1 == append_angle(t, average_angles(left_angle, right_angle))
        t2 == update_state_machine(t1)
        t3 == assess_squat_quality(t2)
    IN check_rep_completion(t3)

\* The dict returned by that update call.
SquatTracker_update_result(t, left_angle, right_angle) ==
    LET t1 == append_angle(t, average_angles(left_angle, right_angle))
        t3 == assess_squat_quality(update_state_machine(t1))
        t4 == check_rep_completion(t3)
    IN [ current_state |-> t4.current_state,
         smoothed_angle |-> t4.smoothed_angle,
         rep_count |-> t4.rep_count,
         depth_quality |-> t4.current_depth_quality,
         rep_completed |-> rep_completes(t3),
         min_angle_in_rep |-> t4.min_angle_in_rep ]

NoResult ==
    [ current_state |-> "unknown", smoothed_angle |-> None, rep_count |-> 0,
      depth_quality |-> "unknown", rep_completed |-> FALSE,
      min_angle_in_rep |-> None ]


----------------------------------------------------------------------------
(* modules/fitness_analyzer.py : ExerciseDetector and its subclasses       *)
(* Angles are whole degrees; form_score is held in half points and         *)
(* confidence in tenths.                                                   *)

Score(x) == 2 * x
Min2(a, b) == IF a < b THEN a ELSE b
Max2(a, b) == IF a > b THEN a ELSE b
Abs(x) == IF x < 0 THEN -x ELSE x

ExerciseType == {"squat", "pushup", "bicep_curl"}

\* Results of calculate_angle inside process_frame; None stands for a frame
\* whose landmarks give no angle, so that the comparison raises and the
\* except branch runs.
DetAngles == {0, 30, 70, 85, 95, 105, 130, 170, 172}
DetInputs == {Some(a) : a \in DetAngles} \cup {None}

ExerciseDetector_init(exercise_type) ==
    [ exercise_type |-> exercise_type,
      phase |-> "unknown",
      rep_count |-> 0,
      last_angle |-> 0,
      confidence |-> 0,
      form_score |-> Score(100) ]

SquatDetector_process_frame(st, angle) ==
    IF angle = None THEN [st EXCEPT !.confidence = 0]
    ELSE LET knee_angle == angle[1]
             s1 == IF knee_angle > 160
                   THEN [st EXCEPT !.rep_count = IF st.phase = "bottom" THEN @ + 1 ELSE @,
                                   !.phase = "up"]
                   ELSE IF knee_angle < 100
                   THEN [st EXCEPT !.phase = "bottom"]
                   ELSE [st EXCEPT !.phase = IF st.last_angle > knee_angle
                                             THEN "down" ELSE "up"]
             s2 == IF s1.phase = "bottom"
                   THEN IF 90 <= knee_angle /\ knee_angle <= 110
                        THEN [s1 EXCEPT !.form_score = Min2(Score(100), @ + Score(1))]
                        ELSE [s1 EXCEPT !.form_score = Max2(Score(60), @ - Score(2))]
                   ELSE s1
         IN [s2 EXCEPT !.last_angle = knee_angle,
                       !.confidence = IF knee_angle > 0 THEN 9 ELSE 0]

\* Variant of PushupDetector.process_frame whose penalty has no floor.
PushupDetector_process_frame_no_floor(st, angle) ==
    IF angle = None THEN [st EXCEPT !.confidence = 0]
    ELSE LET elbow_angle == angle[1]
             s1 == IF elbow_angle > 160
                   THEN [st EXCEPT !.rep_count = IF st.phase = "bottom" THEN @ + 1 ELSE @,
                                   !.phase = "up"]
                   ELSE IF elbow_angle < 90
                   THEN [st EXCEPT !.phase = "bottom"]
                   ELSE [st EXCEPT !.phase = IF st.last_angle > elbow_angle
                                             THEN "down" ELSE "up"]
             s2 == IF s1.phase = "bottom"
                   THEN IF 80 <= elbow_angle /\ elbow_angle <= 100
                        THEN [s1 EXCEPT !.form_score = Min2(Score(100), @ + Score(1))]
                        ELSE [s1 EXCEPT !.form_score = @ - Score(2)]
                   ELSE s1
         IN [s2 EXCEPT !.last_angle = elbow_angle,
                       !.confidence = IF elbow_angle > 0 THEN 8 ELSE 0]

PushupDetector_process_frame(st, angle) ==
    IF angle = None THEN [st EXCEPT !.confidence = 0]
    ELSE LET elbow_angle == angle[1]
             s1 == IF elbow_angle > 160
                   THEN [st EXCEPT !.rep_count = IF st.phase = "bottom" THEN @ + 1 ELSE @,
                                   !.phase = "up"]
                   ELSE IF elbow_angle < 90
                   THEN [st EXCEPT !.phase = "bottom"]
                   ELSE [st EXCEPT !.phase = IF st.last_angle > elbow_angle
                                             THEN "down" ELSE "up"]
             s2 == IF s1.phase = "bottom"
                   THEN IF 80 <= elbow_angle /\ elbow_angle <= 100
                        THEN [s1 EXCEPT !.form_score = Min2(Score(100), @ + Score(1))]
                        ELSE [s1 EXCEPT !.form_score = Max2(Score(60), @ - Score(2))]
                   ELSE s1
         IN [s2 EXCEPT !.last_angle = elbow_angle,
                       !.confidence = IF elbow_angle > 0 THEN 8 ELSE 0]

BicepCurlDetector_process_frame(st, angle) ==
    IF angle = None THEN [st EXCEPT !.confidence = 0]
    ELSE LET elbow_angle == angle[1]
             s1 == IF elbow_angle < 40
                   THEN [st EXCEPT !.rep_count = IF st.phase = "down" THEN @ + 1 ELSE @,
                                   !.phase = "up"]
                   ELSE IF elbow_angle > 160
                   THEN [st EXCEPT !.phase = "down"]
                   ELSE [st EXCEPT !.phase = IF st.last_angle > elbow_angle
                                             THEN "up" ELSE "down"]
             angle_change == Abs(elbow_angle - st.last_angle)
             s2 == IF angle_change < 5
                   THEN [s1 EXCEPT !.form_score = Min2(Score(100), @ + 1)]
                   ELSE IF angle_change > 15
                   THEN [s1 EXCEPT !.form_score = Max2(Score(60), @ - Score(1))]
                   ELSE s1
         IN [s2 EXCEPT !.last_angle = elbow_angle,
                       !.confidence = IF elbow_angle > 0 THEN 7 ELSE 0]

ExerciseDetector_process_frame(st, angle) ==
    IF st.exercise_type = "squat" THEN SquatDetector_process_frame(st, angle)
    ELSE IF st.exercise_type = "pushup" THEN PushupDetector_process_frame(st, angle)
    ELSE BicepCurlDetector_process_frame(st, angle)

\* FitnessAnalyzer.reset_session, the loop over the detectors
reset_detector(st) == [st EXCEPT !.rep_count = 0, !.form_score = Score(100)]


----------------------------------------------------------------------------
(* utils/alert_system.py : AlertSystem                                     *)

AlertTypes == {"restricted_zone_entry", "fall_detected"}

\* person_id arguments: absent, 0 and a positive id
PersonIdArgs == {None, Some(0), Some(1)}

\* Python truth value of an Optional[int]
Truthy(person_id) == person_id # None /\ person_id[1] # 0

\* AlertConfig() and the configurations of the two factory functions
AlertConfig_default ==
    [ enable_sound |-> TRUE, enable_email |-> FALSE, enable_file_logging |-> TRUE,
      max_alerts_in_memory |-> 100, alert_cooldown_seconds |-> 5 ]
create_default_config == [AlertConfig_default EXCEPT !.alert_cooldown_seconds = 3]
create_email_enabled_config ==
    [AlertConfig_default EXCEPT !.alert_cooldown_seconds = 3, !.enable_email = TRUE]

AlertSystem_init(config, has_email_config) ==
    [ config |-> config,
      email_config |-> has_email_config,
      alert_history |-> <<>>,
      last_alert_times |-> << >>,
      real_time_callback |-> FALSE,
      stats |-> [total_alerts |-> 0,
                 alerts_by_type |-> [ty \in {} |-> 0]] ]

\* f"{alert_type}_{person_id}" if person_id else alert_type.  The key is
\* held as a tuple; on the alert types of AlertType, none of which ends in
\* an underscore and digits, the formatted string determines the tuple.
cooldown_key(alert_type, person_id) ==
    IF Truthy(person_id) THEN <<alert_type, person_id[1]>> ELSE <<alert_type>>

\* dict.get(key, 0) on last_alert_times, a function from keys to times
last_alert_time(a, key) ==
    IF key \in DOMAIN a.last_alert_times THEN a.last_alert_times[key] ELSE 0

\* Variant of the cooldown test that still suppresses a call made exactly
\* alert_cooldown_seconds after the last delivery.
is_alert_cooled_down_inclusive(a, t, alert_type, person_id) ==
    (t - last_alert_time(a, cooldown_key(alert_type, person_id)))
        <= a.config.alert_cooldown_seconds

is_alert_cooled_down(a, t, alert_type, person_id) ==
    (t - last_alert_time(a, cooldown_key(alert_type, person_id)))
        < a.config.alert_cooldown_seconds

\* dict item assignment
DictSet(d, k, v) == [x \in DOMAIN d \cup {k} |-> IF x = k THEN v ELSE d[x]]

alert_data(t, alert_type, person_id) ==
    [ timestamp |-> t,
      alert_type |-> alert_type,
      person_id |-> IF Truthy(person_id) THEN person_id ELSE None,
      resolved |-> FALSE ]

alert_effects(a) ==
    (IF a.config.enable_file_logging THEN {"csv"} ELSE {})
    \cup (IF a.config.enable_sound THEN {"sound"} ELSE {})
    \cup (IF a.config.enable_email /\ a.email_config THEN {"email"} ELSE {})
    \cup (IF a.real_time_callback THEN {"callback"} ELSE {})

\* Variant of trigger_alert that updates the statistics before the cooldown
\* check.
AlertSystem_trigger_alert_counts_first(a, t, alert_type, person_id) ==
    LET by == a.stats.alerts_by_type
        counted == [a EXCEPT !.stats.total_alerts = @ + 1,
                             !.stats.alerts_by_type =
                                 DictSet(by, alert_type,
                                     IF alert_type \in DOMAIN by THEN by[alert_type] + 1 ELSE 1)]
    IN IF is_alert_cooled_down(a, t, alert_type, person_id)
       THEN [sys |-> counted, ret |-> FALSE, effects |-> {}]
       ELSE [ sys |-> [counted EXCEPT
                  !.alert_history = TrimTo(Append(@, alert_data(t, alert_type, person_id)),
                                          a.config.max_alerts_in_memory),
                  !.last_alert_times = DictSet(@, cooldown_key(alert_type, person_id), t)],
              ret |-> TRUE,
              effects |-> alert_effects(a) ]

\* The alert system, the return value and the side effects invoked by one
\* trigger_alert call made at time t.
AlertSystem_trigger_alert(a, t, alert_type, person_id) ==
    IF is_alert_cooled_down(a, t, alert_type, person_id)
    THEN [sys |-> a, ret |-> FALSE, effects |-> {}]
    ELSE LET by == a.stats.alerts_by_type IN
         [ sys |-> [a EXCEPT
               !.alert_history = TrimTo(Append(@, alert_data(t, alert_type, person_id)),
                                       a.config.max_alerts_in_memory),
               !.stats.total_alerts = @ + 1,
               !.stats.alerts_by_type =
                   DictSet(by, alert_type,
                       IF alert_type \in DOMAIN by THEN by[alert_type] + 1 ELSE 1),
               !.last_alert_times = DictSet(@, cooldown_key(alert_type, person_id), t)],
           ret |-> TRUE,
           effects |-> alert_effects(a) ]

NoCall == [call |-> None, ret |-> FALSE, effects |-> {}]

\* Observer: when each (alert_type, person_id) pair was last delivered.
AlertPairs == AlertTypes \X PersonIdArgs
alert_obs_init == [p \in AlertPairs |-> None]


----------------------------------------------------------------------------
(* modules/surveillance_analyzer.py : SurveillanceAnalyzer                 *)
(* Of a PersonTrack the fields read by the analysis are kept; speed and    *)
(* direction, which are only drawn, are left out.  An Alert keeps its      *)
(* type, timestamp, person id and confidence; a confidence is held in      *)
(* ninetieths, which makes angle / 90 exact for whole degrees.             *)

speed_threshold_high == 300
loitering_time == 30
fall_angle_threshold == 45
max_alerts == 100

\* Ascending sequence of a finite set of integers: the iteration order of
\* the dicts person_tracks and restricted_zones, whose keys are inserted in
\* increasing order.
RECURSIVE SortedSeq(_)
SortedSeq(S) ==
    IF S = {} THEN <<>>
    ELSE LET m == CHOOSE x \in S : \A y \in S : x <= y
         IN <<m>> \o SortedSeq(S \ {m})

\* cv2.pointPolygonTest(points, point, False) >= 0 for a convex polygon:
\* the point is inside or on the boundary iff it lies on the same side of
\* every edge.
Cross(a, b, q) == (b[1] - a[1]) * (q[2] - a[2]) - (b[2] - a[2]) * (q[1] - a[1])
EdgeSides(points, q) ==
    {Cross(points[i], points[(i % Len(points)) + 1], q) : i \in 1..Len(points)}
pointPolygonTest(points, q) ==
    \/ \A c \in EdgeSides(points, q) : c >= 0
    \/ \A c \in EdgeSides(points, q) : c <= 0

contains_point(zone, point) ==
    IF ~zone.enabled THEN FALSE
    ELSE pointPolygonTest(zone.points, point)

RestrictedZone_init(points) == [points |-> points, enabled |-> TRUE]

\* add_default_zones
zone1_points == << <<50, 50>>, <<200, 50>>, <<200, 150>>, <<50, 150>> >>
\* polygons posted to /api/surveillance/zones
ZonePolygons == {zone1_points, << <<0, 0>>, <<45, 0>>, <<45, 200>>, <<0, 200>> >>}

\* Positions (hip midpoints) and posture angles of the pose of a frame
Positions == {<<40, 100>>, <<60, 100>>, <<300, 300>>}
Postures == {0, 60}
FrameInputs ==
    {Some(<<p, 0>>) : p \in Positions} \cup {Some(<<<<60, 100>>, a>>) : a \in Postures}
        \cup {None}

SurveillanceAnalyzer_init ==
    [ person_tracks |-> << >>,
      next_person_id |-> 1,
      restricted_zones |-> [z \in {1} |-> RestrictedZone_init(zone1_points)],
      alerts |-> <<>>,
      total_people_detected |-> 0,
      active_alerts |-> 0 ]

Tenths(n) == 9 * n

Alert(alert_type, timestamp, person_id, confidence) ==
    [alert_type |-> alert_type, timestamp |-> timestamp,
     person_id |-> person_id, confidence |-> confidence, resolved |-> FALSE]

\* The analysis threads a context through its loops: the analyzer, its
\* alert system and the add_alert calls made so far in the frame.
add_alert(ctx, alert, t, zone_id) ==
    LET sv == ctx.sv
        r == AlertSystem_trigger_alert(ctx.asys, t, alert.alert_type, Some(alert.person_id))
    IN [ sv |-> [sv EXCEPT
                   !.alerts = TrimTo(Append(@, alert), max_alerts),
                   !.person_tracks =
                       IF alert.person_id \in DOMAIN sv.person_tracks
                       THEN [@ EXCEPT ![alert.person_id].alert_count = @ + 1]
                       ELSE @],
         asys |-> r.sys,
         emitted |-> Append(ctx.emitted,
                        [alert_type |-> alert.alert_type, person_id |-> alert.person_id,
                         confidence |-> alert.confidence,
                         zone_id |-> zone_id, delivered |-> r.ret]) ]

SqDist(p, q) == (p[1] - q[1]) * (p[1] - q[1]) + (p[2] - q[2]) * (p[2] - q[2])

\* speed = distance / time_diff > speed_threshold_high, compared in squares
analyze_speed(ctx, pid, t) ==
    LET ps == ctx.sv.person_tracks[pid].positions IN
    IF Len(ps) < 2 THEN ctx
    ELSE LET cur == ps[Len(ps)]
             prev == ps[Len(ps) - 1]
             time_diff == cur[3] - prev[3]
         IN IF time_diff > 0
               /\ SqDist(cur, prev) >
                    speed_threshold_high * speed_threshold_high * time_diff * time_diff
            THEN add_alert(ctx, Alert("rapid_movement", cur[3], pid, Tenths(8)), t, 0)
            ELSE ctx

\* Variant of the loitering test that fires when time_in_area reaches
\* loitering_time.
analyze_loitering_at_limit(ctx, pid, t) ==
    LET ps == ctx.sv.person_tracks[pid].positions IN
    IF Len(ps) < 10 THEN ctx
    ELSE LET recent == LastN(ps, 10)
             sx == SeqSum([i \in 1..10 |-> recent[i][1]])
             sy == SeqSum([i \in 1..10 |-> recent[i][2]])
             sq2 == SeqSum([i \in 1..10 |-> recent[i][1] * recent[i][1]
                                             + recent[i][2] * recent[i][2]])
             time_in_area == recent[10][3] - recent[1][3]
         IN IF 10 * sq2 - (sx * sx + sy * sy) < 1000 * 100
               /\ time_in_area >= loitering_time
            THEN add_alert(ctx, Alert("loitering", recent[10][3], pid, Tenths(7)), t, 0)
            ELSE ctx

\* variance = mean of the squared distances to the centroid of the last ten
\* positions; ten times it is  sum(x^2 + y^2) - (sum(x)^2 + sum(y)^2) / 10
analyze_loitering(ctx, pid, t) ==
    LET ps == ctx.sv.person_tracks[pid].positions IN
    IF Len(ps) < 10 THEN ctx
    ELSE LET recent == LastN(ps, 10)
             sx == SeqSum([i \in 1..10 |-> recent[i][1]])
             sy == SeqSum([i \in 1..10 |-> recent[i][2]])
             sq2 == SeqSum([i \in 1..10 |-> recent[i][1] * recent[i][1]
                                             + recent[i][2] * recent[i][2]])
             time_in_area == recent[10][3] - recent[1][3]
         IN IF 10 * sq2 - (sx * sx + sy * sy) < 1000 * 100
               /\ time_in_area > loitering_time
            THEN add_alert(ctx, Alert("loitering", recent[10][3], pid, Tenths(7)), t, 0)
            ELSE ctx

\* Variant of the zone step that keeps the zone marked after the exit.
analyze_zone_keeps_mark(ctx, pid, zone_id, t) ==
    LET track == ctx.sv.person_tracks[pid]
        cur == track.positions[Len(track.positions)]
        is_in_zone == contains_point(ctx.sv.restricted_zones[zone_id], <<cur[1], cur[2]>>)
    IN IF is_in_zone /\ zone_id \notin track.in_restricted_zones
       THEN add_alert(
              [ctx EXCEPT !.sv.person_tracks[pid].in_restricted_zones = @ \cup {zone_id}],
              Alert("restricted_zone_entry", t, pid, Tenths(9)), t, zone_id)
       ELSE ctx

\* analyze_person, lines 410-426: one zone of the loop
analyze_zone(ctx, pid, zone_id, t) ==
    LET track == ctx.sv.person_tracks[pid]
        cur == track.positions[Len(track.positions)]
        is_in_zone == contains_point(ctx.sv.restricted_zones[zone_id], <<cur[1], cur[2]>>)
    IN IF is_in_zone /\ zone_id \notin track.in_restricted_zones
       THEN add_alert(
              [ctx EXCEPT !.sv.person_tracks[pid].in_restricted_zones = @ \cup {zone_id}],
              Alert("restricted_zone_entry", t, pid, Tenths(9)), t, zone_id)
       ELSE IF ~is_in_zone /\ zone_id \in track.in_restricted_zones
       THEN [ctx EXCEPT !.sv.person_tracks[pid].in_restricted_zones = @ \ {zone_id}]
       ELSE ctx

RECURSIVE analyze_zones(_, _, _, _)
analyze_zones(ctx, pid, zone_ids, t) ==
    IF zone_ids = <<>> THEN ctx
    ELSE analyze_zones(analyze_zone(ctx, pid, Head(zone_ids), t), pid, Tail(zone_ids), t)

\* analyze_person, lines 428-442
analyze_posture(ctx, pid, t) ==
    LET ph == ctx.sv.person_tracks[pid].pose_history
        angle == Abs(ph[Len(ph)])
    IN IF Len(ph) > 0 /\ angle > 45
       THEN add_alert(ctx, Alert("fall_detected", t, pid, Min2(Tenths(9), angle)), t, 0)
       ELSE ctx

analyze_person(ctx, pid, t) ==
    LET c1 == analyze_loitering(analyze_speed(ctx, pid, t), pid, t)
        c2 == IF Len(c1.sv.person_tracks[pid].positions) > 0
              THEN analyze_zones(c1, pid, SortedSeq(DOMAIN c1.sv.restricted_zones), t)
              ELSE c1
    IN analyze_posture(c2, pid, t)

\* update_person_tracking, lines 310-313
RECURSIVE analyze_people(_, _, _)
analyze_people(ctx, pids, t) ==
    IF pids = <<>> THEN ctx
    ELSE LET pid == Head(pids)
             c == IF t - ctx.sv.person_tracks[pid].last_seen < 1
                  THEN analyze_person(ctx, pid, t) ELSE ctx
         IN analyze_people(c, Tail(pids), t)

\* Variant of the search that takes the first track in range.
RECURSIVE best_match_first_in_range(_, _, _, _, _)
best_match_first_in_range(sv, position, pids, best_id, best_sq) ==
    IF pids = <<>> THEN best_id
    ELSE LET pid == Head(pids)
             ps == sv.person_tracks[pid].positions
             d == SqDist(position, ps[Len(ps)])
         IN IF Len(ps) > 0 /\ best_id = 0 /\ d < 100 * 100
            THEN best_match_first_in_range(sv, position, Tail(pids), pid, d)
            ELSE best_match_first_in_range(sv, position, Tail(pids), best_id, best_sq)

\* match_people_to_tracks, lines 320-332: the closest track within 100 px,
\* the first of several equally close ones; 0 when there is none
RECURSIVE best_match(_, _, _, _, _)
best_match(sv, position, pids, best_id, best_sq) ==
    IF pids = <<>> THEN best_id
    ELSE LET pid == Head(pids)
             ps == sv.person_tracks[pid].positions
             d == SqDist(position, ps[Len(ps)])
         IN IF Len(ps) > 0 /\ (best_id = 0 \/ d < best_sq) /\ d < 100 * 100
            THEN best_match(sv, position, Tail(pids), pid, d)
            ELSE best_match(sv, position, Tail(pids), best_id, best_sq)

\* Variant of the update that keeps the whole history of a track.
match_people_to_tracks_untrimmed(sv, person, t) ==
    LET position == person[1]
        pose == person[2]
        best_match_id == best_match(sv, position, SortedSeq(DOMAIN sv.person_tracks), 0, 0)
    IN IF best_match_id # 0
       THEN [sv EXCEPT
               ![ "person_tracks" ][best_match_id] =
                   [@ EXCEPT !.positions = Append(@, <<position[1], position[2], t>>),
                             !.last_seen = t,
                             !.pose_history = Append(@, pose)]]
       ELSE LET new_id == sv.next_person_id IN
            [sv EXCEPT
               !.next_person_id = @ + 1,
               !.total_people_detected = @ + 1,
               !.person_tracks =
                   DictSet(@, new_id,
                       [ person_id |-> new_id,
                         positions |-> << <<position[1], position[2], t>> >>,
                         first_seen |-> t,
                         last_seen |-> t,
                         in_restricted_zones |-> {},
                         pose_history |-> <<pose>>,
                         alert_count |-> 0 ])]

match_people_to_tracks(sv, person, t) ==
    LET position == person[1]
        pose == person[2]
        best_match_id == best_match(sv, position, SortedSeq(DOMAIN sv.person_tracks), 0, 0)
    IN IF best_match_id # 0
       THEN [sv EXCEPT
               ![ "person_tracks" ][best_match_id] =
                   [@ EXCEPT !.positions = LastN(Append(@, <<position[1], position[2], t>>), 50),
                             !.last_seen = t,
                             !.pose_history = LastN(Append(@, pose), 20)]]
       ELSE LET new_id == sv.next_person_id IN
            [sv EXCEPT
               !.next_person_id = @ + 1,
               !.total_people_detected = @ + 1,
               !.person_tracks =
                   DictSet(@, new_id,
                       [ person_id |-> new_id,
                         positions |-> << <<position[1], position[2], t>> >>,
                         first_seen |-> t,
                         last_seen |-> t,
                         in_restricted_zones |-> {},
                         pose_history |-> <<pose>>,
                         alert_count |-> 0 ])]

Unresolved(alerts) == Cardinality({i \in 1..Len(alerts) : ~alerts[i].resolved})

\* process_frame at time t with the pose of the frame (None: no landmarks)
SurveillanceAnalyzer_process_frame(sv, asys, t, pose) ==
    LET c0 == [sv |-> sv, asys |-> asys, emitted |-> <<>>]
        c1 == IF pose = None THEN c0
              ELSE LET m == match_people_to_tracks(sv, pose[1], t)
                   IN analyze_people([c0 EXCEPT !.sv = m],
                                     SortedSeq(DOMAIN m.person_tracks), t)
    IN [c1 EXCEPT !.sv.active_alerts = Unresolved(c1.sv.alerts)]

add_restricted_zone(sv, zone_id, points) ==
    [sv EXCEPT !.restricted_zones = DictSet(@, zone_id, RestrictedZone_init(points))]

\* app.py, add_surveillance_zone: max(restricted_zones.keys(), default=0) + 1
next_zone_id(sv) ==
    LET ids == DOMAIN sv.restricted_zones
    IN (IF ids = {} THEN 0 ELSE CHOOSE m \in ids : \A i \in ids : i <= m) + 1

remove_restricted_zone(sv, zone_id) ==
    IF zone_id \in DOMAIN sv.restricted_zones
    THEN [sv EXCEPT !.restricted_zones =
              [z \in DOMAIN sv.restricted_zones \ {zone_id} |-> sv.restricted_zones[z]]]
    ELSE sv

\* Variant of reset_session that goes on numbering the people.
SurveillanceAnalyzer_reset_session_numbering(sv) ==
    [sv EXCEPT !.person_tracks = << >>,
               !.alerts = <<>>,
               !.total_people_detected = 0,
               !.active_alerts = 0]

SurveillanceAnalyzer_reset_session(sv) ==
    [sv EXCEPT !.person_tracks = << >>,
               !.alerts = <<>>,
               !.total_people_detected = 0,
               !.active_alerts = 0,
               !.next_person_id = 1]

TotalPositions(sv) ==
    SeqSum([i \in 1..Len(SortedSeq(DOMAIN sv.person_tracks)) |->
              Len(sv.person_tracks[SortedSeq(DOMAIN sv.person_tracks)[i]].positions)])

----------------------------------------------------------------------------
(* modules/person_detector.py : SimplePersonTracker                        *)
(* A detection is its centre; a track keeps its centroid and last_seen.    *)

max_distance == 100
max_frames_missing == 30

\* Centres of the detections of a frame: (60, 80) is exactly max_distance
\* away from (0, 0), (10, 10) is close to (0, 0), (500, 500) is far from all.
Centroids == {<<0, 0>>, <<10, 10>>, <<60, 80>>, <<500, 500>>}
DetectionLists ==
    {<<>>} \cup {<<c>> : c \in Centroids}
           \cup {<<c, d>> : c \in Centroids \ {<<60, 80>>}, d \in Centroids \ {<<60, 80>>}}

SimplePersonTracker_init ==
    [tracked_persons |-> << >>, next_person_id |-> 0, frame_count |-> 0]

\* Variant of the inner loop without the distance cap.
RECURSIVE best_detection_uncapped(_, _, _, _, _, _)
best_detection_uncapped(track_center, centers, used, det_idx, best_idx, best_sq) ==
    IF det_idx > Len(centers) THEN best_idx
    ELSE LET d == SqDist(track_center, centers[det_idx])
         IN IF det_idx \notin used /\ (best_idx = 0 \/ d < best_sq)
            THEN best_detection_uncapped(track_center, centers, used, det_idx + 1, det_idx, d)
            ELSE best_detection_uncapped(track_center, centers, used, det_idx + 1,
                                         best_idx, best_sq)

\* The inner loop of _match_detections_to_tracks: the index of the closest
\* unused detection within max_distance, the first of equally close ones;
\* 0 when there is none.
RECURSIVE best_detection(_, _, _, _, _, _)
best_detection(track_center, centers, used, det_idx, best_idx, best_sq) ==
    IF det_idx > Len(centers) THEN best_idx
    ELSE LET d == SqDist(track_center, centers[det_idx])
         IN IF det_idx \notin used /\ (best_idx = 0 \/ d < best_sq)
               /\ d <= max_distance * max_distance
            THEN best_detection(track_center, centers, used, det_idx + 1, det_idx, d)
            ELSE best_detection(track_center, centers, used, det_idx + 1, best_idx, best_sq)

\* Variant of the matching that does not mark the matched detection as used.
RECURSIVE match_detections_to_tracks_reusing(_, _, _, _, _)
match_detections_to_tracks_reusing(tp, track_ids, centers, used, assignments) ==
    IF track_ids = <<>> THEN assignments
    ELSE LET pid == Head(track_ids)
             b == best_detection(tp[pid].centroid, centers, used, 1, 0, 0)
         IN IF b # 0
            THEN match_detections_to_tracks_reusing(tp, Tail(track_ids), centers, used,
                                                    DictSet(assignments, pid, b))
            ELSE match_detections_to_tracks_reusing(tp, Tail(track_ids), centers, used,
                                                    assignments)

\* _match_detections_to_tracks: greedy, one track after the other in the
\* order of the dict; the result maps the matched track ids to detection
\* indices.
RECURSIVE match_detections_to_tracks(_, _, _, _, _)
match_detections_to_tracks(tp, track_ids, centers, used, assignments) ==
    IF track_ids = <<>> THEN assignments
    ELSE LET pid == Head(track_ids)
             b == best_detection(tp[pid].centroid, centers, used, 1, 0, 0)
         IN IF b # 0
            THEN match_detections_to_tracks(tp, Tail(track_ids), centers, used \cup {b},
                                            DictSet(assignments, pid, b))
            ELSE match_detections_to_tracks(tp, Tail(track_ids), centers, used, assignments)

\* New tracks for the detections of the indices idxs, in order
RECURSIVE create_tracks(_, _, _)
create_tracks(t, centers, idxs) ==
    IF idxs = <<>> THEN t
    ELSE create_tracks(
           [t EXCEPT !.tracked_persons =
                         DictSet(@, t.next_person_id,
                                 [centroid |-> centers[Head(idxs)], last_seen |-> t.frame_count]),
                     !.next_person_id = @ + 1],
           centers, Tail(idxs))

\* Variant of the removal that drops a track one update early.
remove_stale_tracks_early(t) ==
    LET stale_ids == {pid \in DOMAIN t.tracked_persons :
                        t.frame_count - t.tracked_persons[pid].last_seen >= max_frames_missing}
    IN [t EXCEPT !.tracked_persons =
            [pid \in DOMAIN t.tracked_persons \ stale_ids |-> t.tracked_persons[pid]]]

remove_stale_tracks(t) ==
    LET stale_ids == {pid \in DOMAIN t.tracked_persons :
                        t.frame_count - t.tracked_persons[pid].last_seen > max_frames_missing}
    IN [t EXCEPT !.tracked_persons =
            [pid \in DOMAIN t.tracked_persons \ stale_ids |-> t.tracked_persons[pid]]]

\* update: the tracker afterwards
SimplePersonTracker_update(t, detections) ==
    LET t1 == [t EXCEPT !.frame_count = @ + 1]
        all_idxs == [i \in 1..Len(detections) |-> i]
    IN IF DOMAIN t.tracked_persons = {}
       THEN create_tracks(t1, detections, all_idxs)
       ELSE LET assignments ==
                    match_detections_to_tracks(t.tracked_persons,
                        SortedSeq(DOMAIN t.tracked_persons), detections, {}, << >>)
                used == {assignments[pid] : pid \in DOMAIN assignments}
                t2 == [t1 EXCEPT !.tracked_persons =
                          [pid \in DOMAIN @ |->
                              IF pid \in DOMAIN assignments
                              THEN [centroid |-> detections[assignments[pid]],
                                    last_seen |-> t1.frame_count]
                              ELSE @[pid]]]
                t3 == create_tracks(t2, detections,
                          SortedSeq({i \in 1..Len(detections) : i \notin used}))
            IN remove_stale_tracks(t3)

\* update: the returned person_assignments, as the set of the ids given to
\* the detections of the frame
SimplePersonTracker_assigned(t, detections) ==
    IF DOMAIN t.tracked_persons = {}
    THEN {t.next_person_id + i - 1 : i \in 1..Len(detections)}
    ELSE LET assignments ==
                 match_detections_to_tracks(t.tracked_persons,
                     SortedSeq(DOMAIN t.tracked_persons), detections, {}, << >>)
         IN DOMAIN assignments
              \cup {t.next_person_id + i - 1 :
                      i \in 1..(Len(detections) - Cardinality(DOMAIN assignments))}

\* Variant of the result that gives every detection a fresh id.
SimplePersonTracker_person_assignments_unmatched(t, detections) ==
    [pid \in {t.next_person_id + k - 1 : k \in 1..Len(detections)} |->
        pid - t.next_person_id + 1]

\* update: the returned person_assignments, from the ids to the indices of
\* the detections of the frame
SimplePersonTracker_person_assignments(t, detections) ==
    LET matched == IF DOMAIN t.tracked_persons = {} THEN << >>
                   ELSE match_detections_to_tracks(t.tracked_persons,
                            SortedSeq(DOMAIN t.tracked_persons), detections, {}, << >>)
        used == {matched[pid] : pid \in DOMAIN matched}
        fresh == SortedSeq({i \in 1..Len(detections) : i \notin used})
        new_ids == {t.next_person_id + k - 1 : k \in 1..Len(fresh)}
    IN [pid \in DOMAIN matched \cup new_ids |->
          IF pid \in new_ids THEN fresh[pid - t.next_person_id + 1] ELSE matched[pid]]

SimplePersonTracker_reset(t) ==
    [t EXCEPT !.tracked_persons = << >>, !.next_person_id = 0, !.frame_count = 0]

----------------------------------------------------------------------------
(* modules/squat_tracker.py : MultiPersonSquatTracker                      *)

\* A callback attribute: None, a function that returns, a function that
\* raises an exception.
Callbacks == {"none", "returns", "raises"}

SquatPersonIds == {0, 1}

\* The knee angles that update_person extracts from pose_landmarks.
MultiLegInputs == {<<Some(Deg(95)), Some(Deg(95))>>, <<Some(Deg(170)), Some(Deg(170))>>}

\* A SquatTracker object as the coordinator holds it: the fields of
\* SquatTracker_init in "state", and last_rep_time and the callback
\* on_state_changed, both None after construction. Its on_rep_completed is
\* the closure on_rep_callback, which calls the coordinator's callback.
SquatTracker_new ==
    [state |-> SquatTracker_init, last_rep_time |-> None, on_state_changed |-> "none"]

\* SquatTracker.reset: the callbacks stay.
SquatTracker_reset(o) ==
    [o EXCEPT !.state = SquatTracker_init, !.last_rep_time = None]

\* SquatTracker.update with its callbacks: the object afterwards, whether
\* the call raised, and the callbacks it invoked. A callback that raises
\* ends the call at the place of the invocation.
SquatTracker_update_calling(o, left_angle, right_angle, on_rep_completed, t) ==
    LET t1 == append_angle(o.state, average_angles(left_angle, right_angle))
        t2 == update_state_machine(t1)
        changed == t2.current_state # t1.current_state
        t3 == assess_squat_quality(t2)
        t4 == check_rep_completion(t3)
        completed == rep_completes(t3)
        o4 == [o EXCEPT !.state = t4,
                        !.last_rep_time = IF completed THEN Some(t) ELSE @]
    IN IF changed /\ o.on_state_changed = "raises"
       THEN [obj |-> [o EXCEPT !.state = t2], raised |-> TRUE,
             state_events |-> 1, rep_events |-> 0]
       ELSE [obj |-> o4,
             raised |-> completed /\ on_rep_completed = "raises",
             state_events |-> IF changed /\ o.on_state_changed # "none" THEN 1 ELSE 0,
             rep_events |-> IF completed /\ on_rep_completed # "none" THEN 1 ELSE 0]

MultiPersonSquatTracker_init ==
    [trackers |-> << >>, keys |-> <<>>, on_rep_completed |-> "none", on_new_person |-> "none"]

\* Variant of get_or_create_tracker that invokes on_new_person on every call.
get_or_create_tracker_always_firing(m, person_id) ==
    IF person_id \notin DOMAIN m.trackers
    THEN [m |-> [m EXCEPT !.trackers = DictSet(@, person_id, SquatTracker_new),
                          !.keys = Append(@, person_id)],
          raised |-> m.on_new_person = "raises",
          new_person_events |-> IF m.on_new_person # "none" THEN 1 ELSE 0]
    ELSE [m |-> m, raised |-> m.on_new_person = "raises",
          new_person_events |-> IF m.on_new_person # "none" THEN 1 ELSE 0]

\* get_or_create_tracker: the coordinator afterwards, whether the call
\* raised, and how often it invoked on_new_person. "keys" is the order of
\* insertion of the dict trackers.
get_or_create_tracker(m, person_id) ==
    IF person_id \notin DOMAIN m.trackers
    THEN [m |-> [m EXCEPT !.trackers = DictSet(@, person_id, SquatTracker_new),
                          !.keys = Append(@, person_id)],
          raised |-> m.on_new_person = "raises",
          new_person_events |-> IF m.on_new_person # "none" THEN 1 ELSE 0]
    ELSE [m |-> m, raised |-> FALSE, new_person_events |-> 0]

\* update_person: the coordinator afterwards, whether the call raised, the
\* callbacks it invoked and the dict it returned (NoResult when it raised).
MultiPersonSquatTracker_update_person(m, person_id, left_angle, right_angle, t) ==
    LET g == get_or_create_tracker(m, person_id)
        u == SquatTracker_update_calling(g.m.trackers[person_id], left_angle, right_angle,
                                         g.m.on_rep_completed, t)
    IN IF g.raised
       THEN [m |-> g.m, raised |-> TRUE, new_person_events |-> g.new_person_events,
             state_events |-> 0, rep_events |-> 0, result |-> NoResult]
       ELSE [m |-> [g.m EXCEPT !.trackers[person_id] = u.obj],
             raised |-> u.raised,
             new_person_events |-> g.new_person_events,
             state_events |-> u.state_events, rep_events |-> u.rep_events,
             result |-> IF u.raised THEN NoResult
                        ELSE SquatTracker_update_result(g.m.trackers[person_id].state,
                                                        left_angle, right_angle)]

\* avg_reps_per_person is held in units of 1 / AvgScale, which is exact for
\* up to two trackers.
AvgScale == 2

RECURSIVE sum_rep_count(_, _)
sum_rep_count(m, ids) ==
    IF ids = <<>> THEN 0
    ELSE m.trackers[Head(ids)].state.rep_count + sum_rep_count(m, Tail(ids))

\* Variant of the loop that compares with >= instead of >.
RECURSIVE find_best_performer_or_equal(_, _, _)
find_best_performer_or_equal(m, ids, best) ==
    IF ids = <<>> THEN best
    ELSE IF m.trackers[Head(ids)].state.rep_count >= best.best_rep_count
         THEN find_best_performer_or_equal(m, Tail(ids),
                  [best_performer |-> Some(Head(ids)),
                   best_rep_count |-> m.trackers[Head(ids)].state.rep_count])
         ELSE find_best_performer_or_equal(m, Tail(ids), best)

\* The loop of get_aggregate_stats over trackers.items(), in dict order
RECURSIVE find_best_performer(_, _, _)
find_best_performer(m, ids, best) ==
    IF ids = <<>> THEN best
    ELSE IF m.trackers[Head(ids)].state.rep_count > best.best_rep_count
         THEN find_best_performer(m, Tail(ids),
                  [best_performer |-> Some(Head(ids)),
                   best_rep_count |-> m.trackers[Head(ids)].state.rep_count])
         ELSE find_best_performer(m, Tail(ids), best)

get_aggregate_stats(m) ==
    LET total_reps == sum_rep_count(m, m.keys)
        active_people == Len(m.keys)
        best == find_best_performer(m, m.keys, [best_performer |-> None, best_rep_count |-> 0])
    IN [ total_reps |-> total_reps,
         active_people |-> active_people,
         avg_reps_per_person |-> IF active_people > 0
                                 THEN (total_reps * AvgScale) \div active_people ELSE 0,
         best_performer |-> best.best_performer,
         best_rep_count |-> best.best_rep_count ]

\* Variant of reset_session that empties the dict of trackers.
MultiPersonSquatTracker_reset_session_clearing(m) ==
    [m EXCEPT !.trackers = << >>, !.keys = <<>>]

MultiPersonSquatTracker_reset_session(m) ==
    [m EXCEPT !.trackers = [pid \in DOMAIN @ |-> SquatTracker_reset(@[pid])]]

SelectIds(ids, keep) ==
    SelectSeq(ids, LAMBDA pid : pid \in keep)

\* Variant of the eviction that removes a tracker once its last rep is
\* inactive_threshold seconds old.
remove_inactive_trackers_at_threshold(m, t, inactive_threshold) ==
    LET inactive_ids == {pid \in DOMAIN m.trackers :
                            /\ m.trackers[pid].last_rep_time # None
                            /\ t - m.trackers[pid].last_rep_time[1] >= inactive_threshold}
        kept == DOMAIN m.trackers \ inactive_ids
    IN [m EXCEPT !.trackers = [pid \in kept |-> m.trackers[pid]],
                 !.keys = SelectIds(m.keys, kept)]

remove_inactive_trackers(m, t, inactive_threshold) ==
    LET inactive_ids == {pid \in DOMAIN m.trackers :
                            /\ m.trackers[pid].last_rep_time # None
                            /\ t - m.trackers[pid].last_rep_time[1] > inactive_threshold}
        kept == DOMAIN m.trackers \ inactive_ids
    IN [m EXCEPT !.trackers = [pid \in kept |-> m.trackers[pid]],
                 !.keys = SelectIds(m.keys, kept)]

----------------------------------------------------------------------------
(* Observer of the update history of the tracker.                          *)
(*   pos     : how many updates since construction or reset, when they     *)
(*             were exactly the first pos readings of SquatScript; -1 once *)
(*             the history has left the script                             *)
(*   commits : the states committed by those updates, in order             *)
(*   cand    : the candidate state computed by the last update             *)
(*   run     : on how many consecutive updates cand has been the candidate *)
(*             (counted up to min_state_duration)                          *)

SquatScript == <<Deg(170), Deg(150), Deg(120), Deg(95), Deg(120), Deg(150), Deg(170)>>

obs_init == [pos |-> 0, commits |-> <<>>, cand |-> "unknown", run |-> 0]

observe(o, t, left_angle, right_angle) ==
    LET t1 == append_angle(t, average_angles(left_angle, right_angle))
        t2 == update_state_machine(t1)
        onScript == /\ o.pos >= 0
                    /\ o.pos < Len(SquatScript)
                    /\ average_angles(left_angle, right_angle) = Some(SquatScript[o.pos + 1])
        cand == IF t1.smoothed_angle = None THEN "unknown"
                ELSE determine_state(t1, t1.smoothed_angle[1])
    IN [ pos |-> IF onScript THEN o.pos + 1 ELSE -1,
         commits |-> IF ~onScript THEN <<>>
                     ELSE IF t2.current_state # t.current_state
                          THEN Append(o.commits, t2.current_state)
                          ELSE o.commits,
         cand |-> cand,
         run |-> IF t1.smoothed_angle = None THEN 0
                 ELSE IF cand # o.cand THEN 1
                 ELSE IF o.run < min_state_duration THEN o.run + 1
                 ELSE o.run ]

----------------------------------------------------------------------------
(* Operations of the squat tracker.                                        *)

update(left_angle, right_angle) ==
    /\ sq.state_frame_count < MaxStateFrames
    /\ sq.rep_count < MaxReps
    /\ sq' = SquatTracker_update(sq, left_angle, right_angle)
    /\ sq_result' = SquatTracker_update_result(sq, left_angle, right_angle)
    /\ obs' = observe(obs, sq, left_angle, right_angle)
    /\ UNCHANGED <<det_vars, alert_vars, surv_vars, trk_vars, ext_vars>>

reset ==
    /\ sq' = SquatTracker_init
    /\ sq_result' = NoResult
    /\ obs' = obs_init
    /\ UNCHANGED <<det_vars, alert_vars, surv_vars, trk_vars, ext_vars>>

SquatInit ==
    /\ sq = SquatTracker_init
    /\ sq_result = NoResult
    /\ obs = obs_init

SquatNext ==
    \/ \E in \in LegInputs : update(in[1], in[2])
    \/ reset

----------------------------------------------------------------------------
(* Operations of an exercise detector.                                     *)

process_frame(angle) ==
    /\ det.rep_count < MaxDetReps
    /\ det' = ExerciseDetector_process_frame(det, angle)
    /\ UNCHANGED <<squat_vars, alert_vars, surv_vars, trk_vars, ext_vars>>

reset_session ==
    /\ det' = reset_detector(det)
    /\ UNCHANGED <<squat_vars, alert_vars, surv_vars, trk_vars, ext_vars>>

DetectorInit == det = ExerciseDetector_init("squat")

DetectorNext ==
    \/ \E angle \in DetInputs : process_frame(angle)
    \/ reset_session

----------------------------------------------------------------------------
(* Operations of the alert system, and the passing of time.                *)

Tick ==
    /\ now < ClockStart + MaxElapsed
    /\ now' = now + 1
    /\ UNCHANGED <<alert_system, alert_out, alert_obs, squat_vars, det_vars, surv_vars, trk_vars, ext_vars>>

trigger_alert(alert_type, person_id) ==
    LET r == AlertSystem_trigger_alert(alert_system, now, alert_type, person_id) IN
    /\ alert_system.stats.total_alerts < MaxAlerts
    /\ alert_system' = r.sys
    /\ alert_out' = [call |-> Some(<<alert_type, person_id>>),
                     ret |-> r.ret, effects |-> r.effects]
    /\ alert_obs' = IF r.ret
                    THEN [alert_obs EXCEPT ![<<alert_type, person_id>>] = Some(now)]
                    ELSE alert_obs
    /\ UNCHANGED <<now, squat_vars, det_vars, surv_vars, trk_vars, ext_vars>>

set_real_time_callback ==
    /\ ~alert_system.real_time_callback
    /\ alert_system' = [alert_system EXCEPT !.real_time_callback = TRUE]
    /\ UNCHANGED <<now, alert_out, alert_obs, squat_vars, det_vars, surv_vars, trk_vars, ext_vars>>

AlertInit ==
    /\ now = ClockStart
    /\ alert_system = AlertSystem_init(AlertConfig_default, FALSE)
    /\ alert_out = NoCall
    /\ alert_obs = alert_obs_init

AlertNext ==
    \/ Tick
    \/ \E ty \in AlertTypes, pid \in PersonIdArgs : trigger_alert(ty, pid)
    \/ set_real_time_callback

----------------------------------------------------------------------------
(* Observer of the surveillance frames, computed from the positions and    *)
(* the zone polygons alone.  Of the last frame it keeps, as pairs of a     *)
(* track and a zone: emitted, the add_alert calls; crossed, the moves from *)
(* outside to inside; stayed, the tracks that had an entry alert for the   *)
(* zone and are still inside; left, the moves from inside to outside;      *)
(* reentered, the moves back into a zone left earlier.  Across frames it   *)
(* keeps inside[p], the zones for which track p got an entry alert and     *)
(* inside which its position has stayed since, and exited[p], the zones    *)
(* track p has left and not re-entered.  A removed zone is forgotten: a    *)
(* zone added later, whatever its id, is another zone.                     *)

LastPos(sv, pid) ==
    LET ps == sv.person_tracks[pid].positions IN <<ps[Len(ps)][1], ps[Len(ps)][2]>>

InZone(sv, pid, z) ==
    /\ pid \in DOMAIN sv.person_tracks
    /\ sv.restricted_zones[z].enabled
    /\ pointPolygonTest(sv.restricted_zones[z].points, LastPos(sv, pid))

EntryAlerts(emitted, pid, z) ==
    Cardinality({i \in 1..Len(emitted) :
                   /\ emitted[i].alert_type = "restricted_zone_entry"
                   /\ emitted[i].person_id = pid
                   /\ emitted[i].zone_id = z})

surv_out_init ==
    [emitted |-> <<>>, crossed |-> {}, stayed |-> {}, left |-> {}, reentered |-> {},
     inside |-> << >>, exited |-> << >>]

GhostOf(f, pid) == IF pid \in DOMAIN f THEN f[pid] ELSE {}

observe_frame(o, sv, sv2, emitted) ==
    LET zones == DOMAIN sv.restricted_zones
        pids == DOMAIN sv2.person_tracks
        pairs == pids \X zones
    IN [ emitted |-> emitted,
         crossed |-> {pz \in pairs : /\ pz[1] \in DOMAIN sv.person_tracks
                                     /\ ~InZone(sv, pz[1], pz[2])
                                     /\ InZone(sv2, pz[1], pz[2])},
         stayed |-> {pz \in pairs : /\ pz[2] \in GhostOf(o.inside, pz[1])
                                    /\ InZone(sv2, pz[1], pz[2])},
         left |-> {pz \in pairs : /\ InZone(sv, pz[1], pz[2])
                                  /\ ~InZone(sv2, pz[1], pz[2])},
         reentered |-> {pz \in pairs : /\ pz[2] \in GhostOf(o.exited, pz[1])
                                       /\ InZone(sv2, pz[1], pz[2])},
         inside |-> [p \in pids |->
                       {z \in zones : /\ InZone(sv2, p, z)
                                      /\ \/ EntryAlerts(emitted, p, z) > 0
                                         \/ z \in GhostOf(o.inside, p)}],
         exited |-> [p \in pids |->
                       {z \in zones : /\ ~InZone(sv2, p, z)
                                      /\ \/ InZone(sv, p, z)
                                         \/ z \in GhostOf(o.exited, p)}] ]

----------------------------------------------------------------------------
(* Operations of the surveillance analyzer.  Its alert system is the one   *)
(* built by create_default_alert_system.                                   *)

surv_process_frame(pose) ==
    LET r == SurveillanceAnalyzer_process_frame(surv, alert_system, now, pose) IN
    /\ TotalPositions(surv) < MaxPositions
    /\ alert_system.stats.total_alerts < MaxSurvAlerts
    /\ surv' = r.sv
    /\ alert_system' = r.asys
    /\ surv_out' = observe_frame(surv_out, surv, r.sv, r.emitted)
    /\ UNCHANGED <<now, alert_out, alert_obs, squat_vars, det_vars, trk_vars, ext_vars>>

add_surveillance_zone(points) ==
    /\ Cardinality(DOMAIN surv.restricted_zones) < MaxZones
    /\ surv' = add_restricted_zone(surv, next_zone_id(surv), points)
    /\ UNCHANGED <<surv_out, alert_vars, squat_vars, det_vars, trk_vars, ext_vars>>

remove_surveillance_zone(zone_id) ==
    /\ zone_id \in DOMAIN surv.restricted_zones
    /\ surv' = remove_restricted_zone(surv, zone_id)
    /\ surv_out' = [surv_out EXCEPT
                      !.left = {pz \in @ : pz[2] # zone_id},
                      !.inside = [p \in DOMAIN @ |-> @[p] \ {zone_id}],
                      !.exited = [p \in DOMAIN @ |-> @[p] \ {zone_id}]]
    /\ UNCHANGED <<alert_vars, squat_vars, det_vars, trk_vars, ext_vars>>

surv_reset_session ==
    /\ surv.person_tracks # << >>
    /\ surv' = SurveillanceAnalyzer_reset_session(surv)
    /\ surv_out' = surv_out_init
    /\ UNCHANGED <<alert_vars, squat_vars, det_vars, trk_vars, ext_vars>>

SurvInit ==
    /\ surv = SurveillanceAnalyzer_init
    /\ surv_out = surv_out_init

\* A session with two restricted zones next to each other.
zone2_points == << <<0, 0>>, <<45, 0>>, <<45, 200>>, <<0, 200>> >>

ZonesNext ==
    \/ (now < ClockStart + MaxSurvElapsed /\ Tick)
    \/ \E pose \in FrameInputs : surv_process_frame(pose)

SurvNext ==
    \/ (now < ClockStart + MaxSurvElapsed /\ Tick)
    \/ \E pose \in FrameInputs : surv_process_frame(pose)
    \/ \E points \in ZonePolygons : add_surveillance_zone(points)
    \/ \E zone_id \in 1..MaxZones : remove_surveillance_zone(zone_id)
    \/ surv_reset_session

----------------------------------------------------------------------------
(* Operations of the person tracker, with the observer of its updates:     *)
(* misses[id], the number of consecutive update calls that returned no     *)
(* detection for the live track id; removed, the tracks the last update    *)
(* removed, each with its number of misses; evicted, the centroid of every *)
(* track removed since the tracker was constructed or reset; created, the  *)
(* ids the last update gave to new tracks; assignments, the returned       *)
(* person_assignments, from ids to indices of detections, the list of the  *)
(* detections of the last update; before, the centroids of the tracks when *)
(* the last update was called.                                             *)

trk_out_init ==
    [misses |-> << >>, removed |-> << >>, evicted |-> << >>, created |-> {},
     assignments |-> << >>, detections |-> <<>>, before |-> << >>]

GhostMisses(o, pid) == IF pid \in DOMAIN o.misses THEN o.misses[pid] ELSE 0

observe_update(o, t, t2, assigned, person_assignments, detections) ==
    LET before == DOMAIN t.tracked_persons
        after == DOMAIN t2.tracked_persons
        count(pid) == IF pid \in assigned THEN 0 ELSE GhostMisses(o, pid) + 1
        gone == before \ after
    IN [ misses |-> [pid \in after |-> count(pid)],
         removed |-> [pid \in gone |-> count(pid)],
         evicted |-> [pid \in DOMAIN o.evicted \cup gone |->
                        IF pid \in gone THEN t.tracked_persons[pid].centroid
                        ELSE o.evicted[pid]],
         created |-> after \ before,
         assignments |-> person_assignments,
         detections |-> detections,
         before |-> [pid \in before |-> t.tracked_persons[pid].centroid] ]

tracker_update(detections) ==
    /\ trk.frame_count < MaxFrameCount
    /\ trk' = SimplePersonTracker_update(trk, detections)
    /\ trk'.next_person_id <= MaxPersonIds
    /\ trk_out' = observe_update(trk_out, trk, trk',
                                 SimplePersonTracker_assigned(trk, detections),
                                 SimplePersonTracker_person_assignments(trk, detections),
                                 detections)
    /\ trk_issued' = trk_issued \cup trk_out'.created
    /\ UNCHANGED <<squat_vars, det_vars, alert_vars, surv_vars, ext_vars>>

tracker_reset ==
    /\ trk.frame_count > 0
    /\ trk' = SimplePersonTracker_reset(trk)
    /\ trk_out' = trk_out_init
    /\ UNCHANGED trk_issued
    /\ UNCHANGED <<squat_vars, det_vars, alert_vars, surv_vars, ext_vars>>

TrackerInit ==
    /\ trk = SimplePersonTracker_init
    /\ trk_out = trk_out_init
    /\ trk_issued = {}

TrackerNext ==
    \/ \E detections \in DetectionLists : tracker_update(detections)
    \/ tracker_reset

----------------------------------------------------------------------------
(* Specifications: one per component, each started from the constructed    *)
(* objects.                                                                *)

----------------------------------------------------------------------------
(* The tracker fed with frames of known people. A scene is the list of the *)
(* people detected in a frame, in the order of the detections, each with   *)
(* the centre of their box; the tracker sees only the centres.             *)

People == {"A", "B"}

\* Centres on one line: 0 and 60 are within max_distance of each other, 300
\* and 350 are within max_distance of each other and far from the other two.
PeoplePositions == {<<0, 0>>, <<60, 0>>, <<300, 0>>, <<350, 0>>}

Scenes ==
    {<<>>}
      \cup {<<[person |-> p, centroid |-> c]>> : p \in People, c \in PeoplePositions}
      \cup {<<[person |-> pc[1], centroid |-> pc[3]], [person |-> pc[2], centroid |-> pc[4]]>> :
              pc \in {x \in People \X People \X PeoplePositions \X PeoplePositions :
                          x[1] # x[2]}}

SceneDetections(scene) == [i \in 1..Len(scene) |-> scene[i].centroid]

\* Observer of the people:
\*   last    : the centre of the person's last detection
\*   seen    : the centres of all detections of the person
\*   missing : the updates since the person's last detection
\*   id      : the id the person was first reported under
\*   moved   : the person has so far moved less than max_distance between
\*             consecutive detections and has not been missing for more than
\*             max_frames_missing updates
\*   stable  : every update has so far reported the person under the same id
ppl_out_init ==
    [last |-> [p \in People |-> None], seen |-> [p \in People |-> {}],
     missing |-> [p \in People |-> 0], id |-> [p \in People |-> None],
     moved |-> [p \in People |-> TRUE], stable |-> [p \in People |-> TRUE]]

observe_scene(o, t, scene) ==
    LET person_assignments == SimplePersonTracker_person_assignments(t, SceneDetections(scene))
        detected == {scene[i].person : i \in 1..Len(scene)}
        idx(p) == CHOOSE i \in 1..Len(scene) : scene[i].person = p
        pos(p) == scene[idx(p)].centroid
        ids(p) == {pid \in DOMAIN person_assignments : person_assignments[pid] = idx(p)}
        missing(p) == IF p \in detected \/ o.last[p] = None THEN 0 ELSE o.missing[p] + 1
    IN [ last |-> [p \in People |-> IF p \in detected THEN Some(pos(p)) ELSE o.last[p]],
         seen |-> [p \in People |-> IF p \in detected THEN o.seen[p] \cup {pos(p)}
                                     ELSE o.seen[p]],
         missing |-> [p \in People |-> missing(p)],
         id |-> [p \in People |->
                   IF p \in detected /\ o.id[p] = None /\ ids(p) # {}
                   THEN Some(CHOOSE pid \in ids(p) : TRUE) ELSE o.id[p]],
         moved |-> [p \in People |->
                      /\ o.moved[p]
                      /\ missing(p) <= max_frames_missing
                      /\ (p \in detected /\ o.last[p] # None) =>
                            SqDist(o.last[p][1], pos(p)) < max_distance * max_distance],
         stable |-> [p \in People |->
                       /\ o.stable[p]
                       /\ p \in detected => /\ Cardinality(ids(p)) = 1
                                            /\ o.id[p] # None => ids(p) = {o.id[p][1]}] ]

people_update(scene) ==
    /\ ppl_trk.frame_count < MaxPeopleFrames
    /\ ppl_trk' = SimplePersonTracker_update(ppl_trk, SceneDetections(scene))
    /\ ppl_trk'.next_person_id <= MaxPeopleIds
    /\ ppl_out' = observe_scene(ppl_out, ppl_trk, scene)
    /\ UNCHANGED <<squat_vars, det_vars, alert_vars, surv_vars, trk_vars, msq_vars, web_vars, shared_vars, resolve_vars, cycle_vars,
                   det_cycle_vars, fa_vars, trim_vars, more_vars>>

PeopleInit ==
    /\ ppl_trk = SimplePersonTracker_init
    /\ ppl_out = ppl_out_init

PeopleNext == \E scene \in Scenes : people_update(scene)

----------------------------------------------------------------------------
(* Operations of the MultiPersonSquatTracker.                              *)

\* Observer of the calls:
\*   op, person_id     : the last call and its argument
\*   known             : the id was a key of trackers before the call
\*   sighted           : the id had been a key of trackers at some time
\*                       before the call
\*   raised            : the call ended with an exception
\*   subscribed        : on_new_person was not None at the call
\*   new_person_events : how often the call invoked on_new_person
\*   created           : the id's tracker after the call is a new tracker,
\*                       advanced by one update
\*   reused            : the id's tracker after the call is its tracker
\*                       before the call, advanced by one update
\*   as_normal         : the coordinator after the call is what it would be
\*                       had every callback returned normally
\*   returned          : the dict the call returned
\*   keys_before       : the keys of trackers before the call
\*   total_reps_before : total_reps of get_aggregate_stats before the call
\*   ever              : the ids that have been keys of trackers so far
msq_out_init ==
    [op |-> "init", person_id |-> 0, known |-> FALSE, sighted |-> FALSE, raised |-> FALSE,
     subscribed |-> FALSE, new_person_events |-> 0, created |-> FALSE, reused |-> FALSE,
     as_normal |-> TRUE, returned |-> NoResult, keys_before |-> {}, total_reps_before |-> 0, ever |-> {}]

\* The coordinator with every raising callback replaced by one that returns.
Returning(cb) == IF cb = "raises" THEN "returns" ELSE cb
WithReturningCallbacks(m) ==
    [m EXCEPT !.on_new_person = Returning(@), !.on_rep_completed = Returning(@),
              !.trackers = [pid \in DOMAIN @ |->
                              [@[pid] EXCEPT !.on_state_changed = Returning(@)]]]

\* The squat states of the trackers, without the callbacks.
TrackerStates(m) ==
    [pid \in DOMAIN m.trackers |->
        [state |-> m.trackers[pid].state, last_rep_time |-> m.trackers[pid].last_rep_time]]

observe_call(o, m, op) ==
    [msq_out_init EXCEPT !.op = op,
                         !.keys_before = DOMAIN m.trackers,
                         !.total_reps_before = get_aggregate_stats(m).total_reps,
                         !.ever = o.ever]

observe_update_person(o, m, person_id, left_angle, right_angle, t) ==
    LET u == MultiPersonSquatTracker_update_person(m, person_id, left_angle, right_angle, t)
        n == MultiPersonSquatTracker_update_person(WithReturningCallbacks(m), person_id,
                                                   left_angle, right_angle, t)
        known == person_id \in DOMAIN m.trackers
        advanced(from) == /\ person_id \in DOMAIN u.m.trackers
                          /\ u.m.trackers[person_id].state =
                                 SquatTracker_update(from, left_angle, right_angle)
    IN [observe_call(o, m, "update_person") EXCEPT
            !.person_id = person_id,
            !.known = known,
            !.sighted = person_id \in o.ever,
            !.raised = u.raised,
            !.subscribed = m.on_new_person # "none",
            !.new_person_events = u.new_person_events,
            !.created = ~known /\ advanced(SquatTracker_init)
                               /\ u.m.keys = Append(m.keys, person_id),
            !.reused = known /\ advanced(m.trackers[person_id].state) /\ u.m.keys = m.keys,
            !.as_normal = TrackerStates(u.m) = TrackerStates(n.m) /\ u.m.keys = n.m.keys,
            !.returned = u.result,
            !.ever = o.ever \cup {person_id}]

\* The people exercise in turns: a person is updated while every other
\* tracker is in its initial state or has reached MaxMultiReps.
multi_update_person(person_id, left_angle, right_angle) ==
    /\ person_id \in DOMAIN msq.trackers =>
          /\ msq.trackers[person_id].state.state_frame_count < MaxStateFrames
          /\ msq.trackers[person_id].state.rep_count < MaxMultiReps
    /\ \A other \in DOMAIN msq.trackers \ {person_id} :
          \/ msq.trackers[other].state = SquatTracker_init
          \/ msq.trackers[other].state.rep_count >= MaxMultiReps
    /\ msq' = MultiPersonSquatTracker_update_person(msq, person_id, left_angle,
                                                    right_angle, now).m
    /\ msq_out' = observe_update_person(msq_out, msq, person_id, left_angle, right_angle, now)
    /\ UNCHANGED <<squat_vars, det_vars, alert_vars, surv_vars, trk_vars, ppl_vars, web_vars, shared_vars, resolve_vars, cycle_vars,
                   det_cycle_vars, fa_vars, trim_vars, more_vars>>

multi_reset_session ==
    /\ msq.keys # <<>>
    /\ msq' = MultiPersonSquatTracker_reset_session(msq)
    /\ msq_out' = observe_call(msq_out, msq, "reset_session")
    /\ UNCHANGED <<squat_vars, det_vars, alert_vars, surv_vars, trk_vars, ppl_vars, web_vars, shared_vars, resolve_vars, cycle_vars,
                   det_cycle_vars, fa_vars, trim_vars, more_vars>>

InactiveThresholds == {0, 30}

multi_remove_inactive_trackers(inactive_threshold) ==
    /\ msq.keys # <<>>
    /\ msq' = remove_inactive_trackers(msq, now, inactive_threshold)
    /\ msq_out' = observe_call(msq_out, msq, "remove_inactive_trackers")
    /\ UNCHANGED <<squat_vars, det_vars, alert_vars, surv_vars, trk_vars, ppl_vars, web_vars, shared_vars, resolve_vars, cycle_vars,
                   det_cycle_vars, fa_vars, trim_vars, more_vars>>

multi_tick ==
    /\ now < ClockStart + MaxMultiElapsed
    /\ now' = now + 1
    /\ UNCHANGED <<alert_system, alert_out, alert_obs, squat_vars, det_vars, surv_vars,
                   trk_vars, ext_vars>>

\* A pause of half a minute in the session, and the second after it.
MaxPauseElapsed == 31
multi_pause ==
    /\ now < ClockStart + MaxPauseElapsed
    /\ now' = IF now = ClockStart THEN now + 30 ELSE now + 1
    /\ UNCHANGED <<alert_system, alert_out, alert_obs, squat_vars, det_vars, surv_vars,
                   trk_vars, ext_vars>>

\* get_aggregate_stats reads the trackers and assigns nothing.
multi_get_aggregate_stats ==
    /\ msq_out.op # "get_aggregate_stats"
    /\ msq_out' = observe_call(msq_out, msq, "get_aggregate_stats")
    /\ UNCHANGED <<msq, squat_vars, det_vars, alert_vars, surv_vars, trk_vars, ppl_vars,
                   web_vars, shared_vars, resolve_vars, cycle_vars, det_cycle_vars, fa_vars,
                   trim_vars, more_vars>>

\* The assignments of the callback attributes by the client, each made once.
set_on_new_person(cb) ==
    /\ msq.on_new_person = "none"
    /\ msq' = [msq EXCEPT !.on_new_person = cb]
    /\ UNCHANGED <<msq_out, squat_vars, det_vars, alert_vars, surv_vars, trk_vars, ppl_vars, web_vars, shared_vars, resolve_vars, cycle_vars,
                   det_cycle_vars, fa_vars, trim_vars, more_vars>>

set_on_rep_completed(cb) ==
    /\ msq.on_rep_completed = "none"
    /\ msq' = [msq EXCEPT !.on_rep_completed = cb]
    /\ UNCHANGED <<msq_out, squat_vars, det_vars, alert_vars, surv_vars, trk_vars, ppl_vars, web_vars, shared_vars, resolve_vars, cycle_vars,
                   det_cycle_vars, fa_vars, trim_vars, more_vars>>

set_on_state_changed(person_id, cb) ==
    /\ person_id \in DOMAIN msq.trackers
    /\ msq.trackers[person_id].on_state_changed = "none"
    /\ msq' = [msq EXCEPT !.trackers[person_id].on_state_changed = cb]
    /\ UNCHANGED <<msq_out, squat_vars, det_vars, alert_vars, surv_vars, trk_vars, ppl_vars, web_vars, shared_vars, resolve_vars, cycle_vars,
                   det_cycle_vars, fa_vars, trim_vars, more_vars>>

MultiInit ==
    /\ msq = MultiPersonSquatTracker_init
    /\ msq_out = msq_out_init

\* Several people, callbacks that return.
MultiNext ==
    \/ \E person_id \in SquatPersonIds : \E in \in MultiLegInputs :
          multi_update_person(person_id, in[1], in[2])
    \/ multi_reset_session
    \/ \E inactive_threshold \in InactiveThresholds :
          multi_remove_inactive_trackers(inactive_threshold)
    \/ multi_tick
    \/ set_on_new_person("returns")

\* Several people in a session with a long pause.
InactiveNext ==
    \/ \E person_id \in SquatPersonIds : \E in \in MultiLegInputs :
          multi_update_person(person_id, in[1], in[2])
    \/ \E inactive_threshold \in InactiveThresholds :
          multi_remove_inactive_trackers(inactive_threshold)
    \/ multi_get_aggregate_stats
    \/ multi_pause

\* One person, callbacks that return or raise.
CallbackNext ==
    \/ \E in \in MultiLegInputs : multi_update_person(0, in[1], in[2])
    \/ \E cb \in {"returns", "raises"} : set_on_new_person(cb)
    \/ \E cb \in {"returns", "raises"} : set_on_rep_completed(cb)
    \/ \E cb \in {"returns", "raises"} : set_on_state_changed(0, cb)

----------------------------------------------------------------------------
(* app.py : VisionTrackApp and the Flask routes, served with threaded=True: *)
(* every request runs in a thread of its own, and the generator returned   *)
(* by video_feed is iterated in the thread of its request.                 *)

\* The clients that request /video_feed
Clients == {1, 2}

Modes == {"fitness", "surveillance", "gaming"}

\* The position of a client's generate_frames generator: "none" before the
\* request and after the loop has ended, "loop" at the head of the while
\* loop, "processing" inside self.process_frame(frame).
VisionTrackApp_init ==
    [ current_mode |-> "fitness",
      camera |-> FALSE,
      is_running |-> FALSE,
      current_session_id |-> None,
      fitness_analyzer |-> [current_exercise |-> "squat", auto_detect |-> TRUE,
                            total_reps |-> 0],
      surveillance_analyzer |->
          [restricted_zones |-> DOMAIN SurveillanceAnalyzer_init.restricted_zones,
           total_people_detected |-> 0],
      generators |-> [c \in Clients |-> "none"] ]

\* The id that db_manager.create_session returns
SessionId == Some(1)

start_camera(a) ==
    [a EXCEPT !.camera = TRUE,
              !.current_session_id = IF @ = None THEN SessionId ELSE @,
              !.is_running = TRUE]

stop_camera(a) ==
    [a EXCEPT !.is_running = FALSE, !.current_session_id = None, !.camera = FALSE]

VisionTrackApp_set_mode(a, mode) ==
    LET a1 == IF a.current_session_id # None /\ mode # a.current_mode
              THEN stop_camera(a) ELSE a
        a2 == [a1 EXCEPT !.current_mode = mode]
    IN IF a2.is_running /\ a2.current_session_id = None
       THEN [a2 EXCEPT !.current_session_id = SessionId] ELSE a2

\* process_frame: what the analyzer of the current mode has changed when the
\* call returns; reps and people are what the frame made it count.
VisionTrackApp_process_frame(a, reps, people) ==
    IF a.current_mode = "fitness"
    THEN [a EXCEPT !.fitness_analyzer.total_reps = @ + reps]
    ELSE IF a.current_mode = "surveillance"
    THEN [a EXCEPT !.surveillance_analyzer.total_people_detected = @ + people]
    ELSE a

FitnessAnalyzer_reset_session(f) == [f EXCEPT !.total_reps = 0]

FitnessAnalyzer_set_exercise_type(f, exercise_type) ==
    [f EXCEPT !.current_exercise = exercise_type, !.auto_detect = FALSE]

\* Observer of the mutations of analyzer state:
\*   writer    : the thread of the last mutation, a frame loop or a handler
\*   mid_frame : the last mutation by a handler was made while a frame loop
\*               was inside process_frame
web_out_init == [writer |-> "none", mid_frame |-> FALSE]

Processing(a) == {c \in Clients : a.generators[c] = "processing"}

by_handler(a) == [writer |-> "handler", mid_frame |-> Processing(a) # {}]

\* GET /video_feed
video_feed(c) ==
    /\ web.generators[c] = "none"
    /\ web' = [(IF ~web.is_running THEN start_camera(web) ELSE web)
                  EXCEPT !.generators[c] = "loop"]
    /\ UNCHANGED <<web_out, squat_vars, det_vars, alert_vars, surv_vars, trk_vars,
                   ppl_vars, msq_vars, shared_vars, resolve_vars, cycle_vars,
                   det_cycle_vars, fa_vars, trim_vars, more_vars>>

\* generate_frames: the head of the loop up to the call of process_frame
generate_frames_read(c) ==
    /\ web.generators[c] = "loop"
    /\ web' = IF ~web.is_running THEN [web EXCEPT !.generators[c] = "none"]
              ELSE IF ~web.camera THEN web
              ELSE [web EXCEPT !.generators[c] = "processing"]
    /\ UNCHANGED <<web_out, squat_vars, det_vars, alert_vars, surv_vars, trk_vars,
                   ppl_vars, msq_vars, shared_vars, resolve_vars, cycle_vars,
                   det_cycle_vars, fa_vars, trim_vars, more_vars>>

\* generate_frames: process_frame returns, the frame is yielded
generate_frames_process(c, reps, people) ==
    /\ web.generators[c] = "processing"
    /\ web.fitness_analyzer.total_reps < MaxWebReps
    /\ web.surveillance_analyzer.total_people_detected < MaxWebPeople
    /\ web' = [VisionTrackApp_process_frame(web, reps, people)
                  EXCEPT !.generators[c] = "loop"]
    /\ web_out' = IF web.current_mode = "gaming" THEN web_out
                  ELSE [writer |-> "loop", mid_frame |-> FALSE]
    /\ UNCHANGED <<squat_vars, det_vars, alert_vars, surv_vars, trk_vars, ppl_vars, msq_vars, shared_vars, resolve_vars, cycle_vars,
                   det_cycle_vars, fa_vars, trim_vars, more_vars>>

\* POST /api/control/start, /api/control/stop, /api/control/reset
control_action(action) ==
    /\ web' = IF action = "start" THEN start_camera(web)
              ELSE IF action = "stop" THEN stop_camera(web)
              ELSE [web EXCEPT !.fitness_analyzer = FitnessAnalyzer_reset_session(@)]
    /\ web_out' = IF action = "reset" THEN by_handler(web) ELSE web_out
    /\ UNCHANGED <<squat_vars, det_vars, alert_vars, surv_vars, trk_vars, ppl_vars, msq_vars, shared_vars, resolve_vars, cycle_vars,
                   det_cycle_vars, fa_vars, trim_vars, more_vars>>

\* POST /api/mode/<mode>
set_mode(mode) ==
    /\ web' = VisionTrackApp_set_mode(web, mode)
    /\ UNCHANGED <<web_out, squat_vars, det_vars, alert_vars, surv_vars, trk_vars,
                   ppl_vars, msq_vars, shared_vars, resolve_vars, cycle_vars,
                   det_cycle_vars, fa_vars, trim_vars, more_vars>>

\* POST /api/exercise/set/<exercise_type>
set_exercise_type(exercise_type) ==
    /\ web' = [web EXCEPT !.fitness_analyzer =
                             FitnessAnalyzer_set_exercise_type(@, exercise_type)]
    /\ web_out' = by_handler(web)
    /\ UNCHANGED <<squat_vars, det_vars, alert_vars, surv_vars, trk_vars, ppl_vars, msq_vars, shared_vars, resolve_vars, cycle_vars,
                   det_cycle_vars, fa_vars, trim_vars, more_vars>>

\* POST /api/surveillance/zones
web_add_surveillance_zone ==
    /\ Cardinality(web.surveillance_analyzer.restricted_zones) < MaxWebZones
    /\ web' = [web EXCEPT !.surveillance_analyzer.restricted_zones =
                             @ \cup {next_zone_id([restricted_zones |-> [z \in @ |-> z]])}]
    /\ web_out' = by_handler(web)
    /\ UNCHANGED <<squat_vars, det_vars, alert_vars, surv_vars, trk_vars, ppl_vars, msq_vars, shared_vars, resolve_vars, cycle_vars,
                   det_cycle_vars, fa_vars, trim_vars, more_vars>>

\* DELETE /api/surveillance/zones/<zone_id>
web_remove_surveillance_zone(zone_id) ==
    /\ zone_id \in web.surveillance_analyzer.restricted_zones
    /\ web' = [web EXCEPT !.surveillance_analyzer.restricted_zones = @ \ {zone_id}]
    /\ web_out' = by_handler(web)
    /\ UNCHANGED <<squat_vars, det_vars, alert_vars, surv_vars, trk_vars, ppl_vars, msq_vars, shared_vars, resolve_vars, cycle_vars,
                   det_cycle_vars, fa_vars, trim_vars, more_vars>>

WebInit ==
    /\ web = VisionTrackApp_init
    /\ web_out = web_out_init

WebNext ==
    \/ \E c \in Clients : video_feed(c)
    \/ \E c \in Clients : generate_frames_read(c)
    \/ \E c \in Clients : \E reps \in {0, 1} : \E people \in {0, 1} :
          generate_frames_process(c, reps, people)
    \/ \E action \in {"start", "stop", "reset"} : control_action(action)
    \/ \E mode \in Modes : set_mode(mode)
    \/ \E exercise_type \in ExerciseType : set_exercise_type(exercise_type)
    \/ web_add_surveillance_zone
    \/ \E zone_id \in 1..MaxWebZones : web_remove_surveillance_zone(zone_id)

----------------------------------------------------------------------------
(* app.py: the fields the frame loop shares with the HTTP handlers.        *)
(* VisionTrackApp.stats is a dict, .frame the latest processed frame and   *)
(* .lock a threading.Lock.  The frame loop runs in the thread of the       *)
(* /video_feed response, the handlers in request threads.                 *)

SummaryReps == 0..2
SummaryPeople == 1..2

\* __init__: the stats dict has no 'active_people' key yet.
VisionTrackApp_shared_init ==
    [ stats   |-> [fps |-> 0, session_reps |-> 0, active_people |-> None],
      frame   |-> None,
      lock    |-> "free",
      loop    |-> "read",
      summary |-> None,
      frames  |-> 0 ]

shared_out_init ==
    [ op |-> "none", lock_held |-> FALSE, snapshot |-> None,
      complete |-> {<<0, None>>} ]

\* process_fitness_mode: fitness_analyzer.process_frame, get_session_summary and
\* the first of the writes into stats.
write_session_reps(reps, people) ==
    /\ shared.loop = "read"
    /\ shared.frames < MaxSharedFrames
    /\ shared' = [shared EXCEPT !.summary = Some([total_reps |-> reps, people_tracked |-> people]),
                                !.stats.session_reps = reps,
                                !.loop = "reps_written"]
    /\ shared_out' = [shared_out EXCEPT !.op = "write_stats",
                                        !.lock_held = (shared.lock = "loop")]
    /\ UNCHANGED <<squat_vars, det_vars, alert_vars, surv_vars, trk_vars, ppl_vars, msq_vars, web_vars, resolve_vars, cycle_vars,
                   det_cycle_vars, fa_vars, trim_vars, more_vars>>

\* process_fitness_mode: the next statement, stats['active_people'] = ...
write_active_people ==
    /\ shared.loop = "reps_written"
    /\ shared' = [shared EXCEPT !.stats.active_people = Some(shared.summary[1].people_tracked),
                                !.loop = "processed"]
    /\ shared_out' = [shared_out EXCEPT
           !.op = "write_stats",
           !.lock_held = (shared.lock = "loop"),
           !.complete = @ \cup {<<shared.summary[1].total_reps,
                                  Some(shared.summary[1].people_tracked)>>}]
    /\ UNCHANGED <<squat_vars, det_vars, alert_vars, surv_vars, trk_vars, ppl_vars, msq_vars, web_vars, resolve_vars, cycle_vars,
                   det_cycle_vars, fa_vars, trim_vars, more_vars>>

\* generate_frames: the FPS block (stats['fps'] is written once a second) and
\* the encoding of the frame.
write_fps(second_passed) ==
    /\ shared.loop = "processed"
    /\ shared' = [shared EXCEPT !.stats.fps = IF second_passed THEN 30 ELSE @,
                                !.loop = "encoded"]
    /\ shared_out' = [shared_out EXCEPT
           !.op = IF second_passed THEN "write_stats" ELSE "encode",
           !.lock_held = (shared.lock = "loop")]
    /\ UNCHANGED <<squat_vars, det_vars, alert_vars, surv_vars, trk_vars, ppl_vars, msq_vars, web_vars, resolve_vars, cycle_vars,
                   det_cycle_vars, fa_vars, trim_vars, more_vars>>

\* generate_frames: `with self.lock:` acquires the lock.
acquire_lock ==
    /\ shared.loop = "encoded"
    /\ shared.lock = "free"
    /\ shared' = [shared EXCEPT !.lock = "loop", !.loop = "locked"]
    /\ shared_out' = [shared_out EXCEPT !.op = "acquire", !.lock_held = TRUE]
    /\ UNCHANGED <<squat_vars, det_vars, alert_vars, surv_vars, trk_vars, ppl_vars, msq_vars, web_vars, resolve_vars, cycle_vars,
                   det_cycle_vars, fa_vars, trim_vars, more_vars>>

\* generate_frames: self.frame = processed_frame, and the end of the with block.
store_frame ==
    /\ shared.loop = "locked"
    /\ shared' = [shared EXCEPT !.frame = Some(shared.frames + 1),
                                !.frames = @ + 1,
                                !.lock = "free",
                                !.loop = "read"]
    /\ shared_out' = [shared_out EXCEPT !.op = "write_frame",
                                        !.lock_held = (shared.lock = "loop")]
    /\ UNCHANGED <<squat_vars, det_vars, alert_vars, surv_vars, trk_vars, ppl_vars, msq_vars, web_vars, resolve_vars, cycle_vars,
                   det_cycle_vars, fa_vars, trim_vars, more_vars>>

\* GET /api/stats: stats = vision_app.stats.copy(), in a request thread.
get_stats ==
    /\ shared_out' = [shared_out EXCEPT !.op = "read_stats",
                                        !.lock_held = (shared.lock = "handler"),
                                        !.snapshot = Some(shared.stats)]
    /\ UNCHANGED <<shared, squat_vars, det_vars, alert_vars, surv_vars, trk_vars, ppl_vars, msq_vars, web_vars, resolve_vars, cycle_vars,
                   det_cycle_vars, fa_vars, trim_vars, more_vars>>

SharedInit ==
    /\ shared = VisionTrackApp_shared_init
    /\ shared_out = shared_out_init

SharedNext ==
    \/ \E reps \in SummaryReps : \E people \in SummaryPeople : write_session_reps(reps, people)
    \/ write_active_people
    \/ \E second_passed \in BOOLEAN : write_fps(second_passed)
    \/ acquire_lock
    \/ store_frame
    \/ get_stats


----------------------------------------------------------------------------
(* utils/alert_system.py : resolve_alert, on an alert system whose history *)
(* holds few records.                                                      *)

\* AlertConfig(max_alerts_in_memory=2)
AlertConfig_small == [AlertConfig_default EXCEPT !.max_alerts_in_memory = 2]

\* alert_index arguments: negative, in range and beyond the end
ResolveIndexes == (0 - 1)..2

\* Variant of resolve_alert that indexes the list as Python does, a negative
\* index counting from the end.
AlertSystem_resolve_alert_from_end(a, alert_index) ==
    LET n == Len(a.alert_history)
        i == IF alert_index < 0 THEN n + alert_index ELSE alert_index
    IN IF 0 <= i /\ i < n
       THEN [sys |-> [a EXCEPT !.alert_history[i + 1].resolved = TRUE], ret |-> TRUE]
       ELSE [sys |-> a, ret |-> FALSE]

\* The alert system and the return value of resolve_alert(alert_index).
\* alert_history[0] of the code is alert_history[1] here.
AlertSystem_resolve_alert(a, alert_index) ==
    IF 0 <= alert_index /\ alert_index < Len(a.alert_history)
    THEN [sys |-> [a EXCEPT !.alert_history[alert_index + 1].resolved = TRUE],
          ret |-> TRUE]
    ELSE [sys |-> a, ret |-> FALSE]

resolve_alert(alert_index) ==
    LET r == AlertSystem_resolve_alert(alert_system, alert_index) IN
    /\ alert_system' = r.sys
    /\ resolve_out' = [alert_index |-> Some(alert_index), ret |-> r.ret]
    /\ UNCHANGED <<now, alert_out, alert_obs, squat_vars, det_vars, surv_vars, trk_vars,
                   ppl_vars, msq_vars, web_vars, shared_vars, cycle_vars, det_cycle_vars, fa_vars, trim_vars, more_vars>>

ResolveInit == resolve_out = [alert_index |-> None, ret |-> FALSE]

ResolveNext ==
    \/ Tick
    \/ \E ty \in AlertTypes, pid \in {None, Some(1)} : trigger_alert(ty, pid)
    \/ \E alert_index \in ResolveIndexes : resolve_alert(alert_index)


----------------------------------------------------------------------------
(* The squat tracker with an observer of its cycles.                       *)
(*   bottom_seen   : the state has been BOTTOM since it was last STANDING   *)
(*   bottom_before : bottom_seen before the last update                    *)
(*   bottom_min    : the least smoothed angle of the updates that ended in  *)
(*                   BOTTOM since the last completed rep (or reset)        *)
(*   min_before    : bottom_min before the last update                     *)
(*   angles_before : rep_angles before the last update                     *)
(*   callback      : the arguments the last update passed to               *)
(*                   on_rep_completed, None when it made no such call      *)

\* SquatTracker(person_id=0)
SquatTracker_person_id == 0

\* The arguments of the on_rep_completed call of one update:
\* (self.person_id, self.rep_count, self.rep_angles[-1]).
on_rep_completed_args(t, left_angle, right_angle) ==
    LET t1 == append_angle(t, average_angles(left_angle, right_angle))
        t3 == assess_squat_quality(update_state_machine(t1))
        t4 == check_rep_completion(t3)
    IN IF rep_completes(t3)
       THEN Some(<<SquatTracker_person_id, t4.rep_count, t4.rep_angles[Len(t4.rep_angles)]>>)
       ELSE None

cycle_init ==
    [ bottom_seen |-> FALSE, bottom_before |-> FALSE, bottom_min |-> None,
      min_before |-> None, angles_before |-> <<>>, callback |-> None ]

observe_cycle(o, t, left_angle, right_angle) ==
    LET t4 == SquatTracker_update(t, left_angle, right_angle)
        args == on_rep_completed_args(t, left_angle, right_angle)
        in_bottom == t4.current_state = "bottom" /\ t4.smoothed_angle # None
    IN [ bottom_seen |-> IF t4.current_state = "standing" THEN FALSE
                         ELSE IF t4.current_state = "bottom" THEN TRUE
                         ELSE o.bottom_seen,
         bottom_before |-> o.bottom_seen,
         bottom_min |-> IF args # None THEN None
                        ELSE IF in_bottom /\ (o.bottom_min = None
                                               \/ t4.smoothed_angle[1] < o.bottom_min[1])
                        THEN t4.smoothed_angle
                        ELSE o.bottom_min,
         min_before |-> o.bottom_min,
         angles_before |-> t.rep_angles,
         callback |-> args ]

update_cycle(left_angle, right_angle) ==
    /\ sq.state_frame_count < MaxStateFrames
    /\ sq.rep_count < MaxReps
    /\ sq' = SquatTracker_update(sq, left_angle, right_angle)
    /\ sq_result' = SquatTracker_update_result(sq, left_angle, right_angle)
    /\ cycle' = observe_cycle(cycle, sq, left_angle, right_angle)
    /\ UNCHANGED <<obs, det_vars, alert_vars, surv_vars, trk_vars,
                   ppl_vars, msq_vars, web_vars, shared_vars, resolve_vars, det_cycle_vars, fa_vars, trim_vars, more_vars>>

reset_cycle ==
    /\ sq' = SquatTracker_init
    /\ sq_result' = NoResult
    /\ cycle' = cycle_init
    /\ UNCHANGED <<obs, det_vars, alert_vars, surv_vars, trk_vars,
                   ppl_vars, msq_vars, web_vars, shared_vars, resolve_vars, det_cycle_vars, fa_vars, trim_vars, more_vars>>

CycleInit == cycle = cycle_init

CycleNext ==
    \/ \E in \in LegInputs : update_cycle(in[1], in[2])
    \/ reset_cycle

\* Knee angles of squats of two depths.
DepthInputs == {<<Some(Deg(a)), Some(Deg(a))>> : a \in {80, 95, 170}}

DepthNext ==
    \/ \E in \in DepthInputs : update_cycle(in[1], in[2])
    \/ reset_cycle

----------------------------------------------------------------------------
(* The exercise detector with an observer of the cycles of its angles.     *)
(* A cycle starts with a frame beyond the rest threshold, stays in the     *)
(* intermediate band, goes beyond the opposite threshold, stays in the     *)
(* band again and ends with a frame beyond the rest threshold.             *)
(*   stage : 0 outside a cycle, 1 at rest, 2 in the band on the way out,   *)
(*           3 beyond the opposite threshold, 4 in the band on the way     *)
(*           back, 5 at rest again: the last frame completed a cycle       *)
(*   start : rep_count after the last frame at rest before the cycle       *)
(*   delta : by how much rep_count grew during the completed cycle         *)

\* The thresholds of the three detectors: the rest position of the squat and
\* of the push-up is the extended joint (angle above 160); so is the rest
\* position of the curl (angle above down_threshold).
AngleZone(exercise_type, angle) ==
    LET far == IF exercise_type = "squat" THEN 100
               ELSE IF exercise_type = "pushup" THEN 90
               ELSE 40
    IN IF angle > 160 THEN "rest"
       ELSE IF angle < far THEN "far"
       ELSE "band"

det_cycle_init == [stage |-> 0, start |-> 0, delta |-> 0]

observe_det_cycle(o, st, st2, angle) ==
    IF angle = None THEN det_cycle_init
    ELSE LET z == AngleZone(st.exercise_type, angle[1])
             at_rest == o.stage \in {1, 5}
         IN IF z = "rest"
            THEN IF o.stage = 4
                 THEN [stage |-> 5, start |-> st2.rep_count,
                       delta |-> st2.rep_count - o.start]
                 ELSE [stage |-> 1, start |-> st2.rep_count, delta |-> 0]
            ELSE IF z = "band"
            THEN IF at_rest \/ o.stage = 2 THEN [o EXCEPT !.stage = 2, !.delta = 0]
                 ELSE IF o.stage \in {3, 4} THEN [o EXCEPT !.stage = 4]
                 ELSE det_cycle_init
            ELSE IF o.stage \in {2, 3} THEN [o EXCEPT !.stage = 3]
                 ELSE det_cycle_init

process_frame_cycle(angle) ==
    /\ det.rep_count < MaxDetReps
    /\ det' = ExerciseDetector_process_frame(det, angle)
    /\ det_cycle' = observe_det_cycle(det_cycle, det, det', angle)
    /\ UNCHANGED <<squat_vars, alert_vars, surv_vars, trk_vars,
                   ppl_vars, msq_vars, web_vars, shared_vars, resolve_vars, cycle_vars, fa_vars, trim_vars, more_vars>>

reset_session_cycle ==
    /\ det' = reset_detector(det)
    /\ det_cycle' = det_cycle_init
    /\ UNCHANGED <<squat_vars, alert_vars, surv_vars, trk_vars,
                   ppl_vars, msq_vars, web_vars, shared_vars, resolve_vars, cycle_vars, fa_vars, trim_vars, more_vars>>

DetCycleInit == det_cycle = det_cycle_init

DetCycleNext ==
    \/ \E angle \in DetInputs : process_frame_cycle(angle)
    \/ reset_session_cycle

----------------------------------------------------------------------------
(* modules/fitness_analyzer.py : FitnessAnalyzer.detect_exercise_type      *)

\* The keys of self.detectors in the order of the dict
DetectorOrder == <<"squat", "pushup", "bicep_curl">>

\* state.confidence of a detector, in tenths: 0 after construction and after
\* a frame without an angle, else the constant of its class
DetectorConfidence(exercise_type) ==
    IF exercise_type = "squat" THEN 9
    ELSE IF exercise_type = "pushup" THEN 8
    ELSE 7

FitnessAnalyzer_init ==
    [ current_exercise |-> "squat",
      confidence |-> [k \in ExerciseType |-> 0] ]

\* max(exercise_scores, key=exercise_scores.get): the first key, in the order
\* of the dict, whose score no other key exceeds
RECURSIVE max_score(_, _, _, _)
max_score(scores, order, i, best) ==
    IF i > Len(order) THEN best
    ELSE IF order[i] \in DOMAIN scores
            /\ (best = None \/ scores[order[i]] > scores[best[1]])
    THEN max_score(scores, order, i + 1, Some(order[i]))
    ELSE max_score(scores, order, i + 1, best)

\* Variant of detect_exercise_type that returns the first type whose detector
\* answers.
FitnessAnalyzer_detect_exercise_type_first(a, detected) ==
    IF detected # {}
    THEN DetectorOrder[CHOOSE i \in 1..3 :
             /\ DetectorOrder[i] \in detected
             /\ \A j \in 1..(i - 1) : DetectorOrder[j] \notin detected]
    ELSE a.current_exercise

\* detect_exercise_type, where detected is the set of the exercise types
\* whose detector's detect_exercise(landmarks) is true
FitnessAnalyzer_detect_exercise_type(a, detected) ==
    LET exercise_scores == [k \in detected |-> a.confidence[k]]
    IN IF detected # {}
       THEN max_score(exercise_scores, DetectorOrder, 1, None)[1]
       ELSE a.current_exercise

fa_out_init ==
    [ detected |-> {}, confidence |-> [k \in ExerciseType |-> 0],
      current_exercise |-> "squat", ret |-> None ]

\* FitnessAnalyzer.process_frame for one person with auto_detect: the detected
\* type becomes the current exercise, whose detector then processes the
\* frame and sets its confidence.
auto_detect_frame(detected, has_angle) ==
    LET ret == FitnessAnalyzer_detect_exercise_type(fa, detected) IN
    /\ fa' = [fa EXCEPT !.current_exercise = ret,
                        !.confidence[ret] = IF has_angle THEN DetectorConfidence(ret) ELSE 0]
    /\ fa_out' = [detected |-> detected, confidence |-> fa.confidence,
                  current_exercise |-> fa.current_exercise, ret |-> Some(ret)]
    /\ UNCHANGED <<squat_vars, det_vars, alert_vars, surv_vars, trk_vars, ppl_vars, msq_vars,
                   web_vars, shared_vars, resolve_vars, cycle_vars, det_cycle_vars, trim_vars, more_vars>>

AnalyzerInit ==
    /\ fa = FitnessAnalyzer_init
    /\ fa_out = fa_out_init

AnalyzerNext ==
    \E detected \in SUBSET ExerciseType : \E has_angle \in BOOLEAN :
        auto_detect_frame(detected, has_angle)

----------------------------------------------------------------------------
(* modules/fitness_analyzer.py : FitnessAnalyzer.process_frame and the      *)
(* calls that set its mode.  Of the squat mode, which hands the frame to    *)
(* the MultiPersonSquatTracker, the analyzer keeps what it reads back:      *)
(* squat_total is total_reps of squat_tracker.get_aggregate_stats().        *)

\* The landmarks of a frame, as the detectors read them: the knee angle,
\* the elbow angle and body_angle, the angle in degrees of the line from
\* shoulder to hip.
FitPoses == [knee : {95, 175}, elbow : {30, 80, 170}, body : {10, 50, 90}]

\* detector.detect_exercise(landmarks) of the three detectors
detect_exercise(exercise_type, landmarks) ==
    IF exercise_type = "squat" THEN 90 <= landmarks.knee /\ landmarks.knee <= 170
    ELSE IF exercise_type = "pushup" THEN landmarks.body < 30
    ELSE landmarks.body > 70

\* The angle the process_frame of a detector computes from the landmarks.
detector_angle(exercise_type, landmarks) ==
    IF exercise_type = "squat" THEN Some(landmarks.knee) ELSE Some(landmarks.elbow)

FitnessAnalyzer_new ==
    [ current_exercise |-> "squat",
      auto_detect |-> TRUE,
      total_reps |-> 0,
      detectors |-> [k \in ExerciseType |-> ExerciseDetector_init(k)],
      squat_total |-> 0 ]

\* _process_squat_mode: completed is the number of reps the trackers of
\* squat_tracker have completed on the frame.
process_squat_mode(f, completed) ==
    [f EXCEPT !.squat_total = @ + completed,
              !.total_reps = f.squat_total + completed]

\* _process_other_exercises, for the landmarks of the frame (None: no pose)
process_other_exercises(f, landmarks) ==
    IF landmarks = None THEN f
    ELSE LET detected == {k \in ExerciseType : detect_exercise(k, landmarks[1])}
             detected_exercise ==
                 FitnessAnalyzer_detect_exercise_type(
                     [current_exercise |-> f.current_exercise,
                      confidence |-> [k \in ExerciseType |-> f.detectors[k].confidence]],
                     detected)
             current == IF f.auto_detect THEN detected_exercise ELSE f.current_exercise
             exercise_state ==
                 ExerciseDetector_process_frame(f.detectors[current],
                                                detector_angle(current, landmarks[1]))
         IN [f EXCEPT !.current_exercise = current,
                      !.detectors[current] = exercise_state,
                      !.total_reps = @ + exercise_state.rep_count]

\* Variant of process_frame that runs the exercise detection in every mode.
FitnessAnalyzer_process_frame_detecting(f, landmarks, completed) ==
    IF f.current_exercise = "squat" /\ ~f.auto_detect
    THEN process_squat_mode(f, completed)
    ELSE process_other_exercises(f, landmarks)

FitnessAnalyzer_process_frame(f, landmarks, completed) ==
    IF f.current_exercise = "squat"
    THEN process_squat_mode(f, completed)
    ELSE process_other_exercises(f, landmarks)

\* reset_session: the counters, the detectors and the squat tracker
FitnessAnalyzer_reset_session_state(f) ==
    [f EXCEPT !.total_reps = 0,
              !.detectors = [k \in ExerciseType |-> reset_detector(@[k])],
              !.squat_total = 0]

\* Observer of the calls:
\*   op       : the last call
\*   before   : the analyzer before the last call
\*   frames   : the process_frame calls made so far
\*   counted  : the reps the detectors have counted on the frames of the
\*              session, in the other modes
fit_out_init == [op |-> "init", before |-> FitnessAnalyzer_new, frames |-> 0, counted |-> 0]

RepsCounted(f, f2) ==
    SeqSum([i \in 1..3 |-> f2.detectors[DetectorOrder[i]].rep_count
                           - f.detectors[DetectorOrder[i]].rep_count])

fit_process_frame(landmarks, completed) ==
    LET f2 == FitnessAnalyzer_process_frame(fit, landmarks, completed) IN
    /\ fit_out.frames < MaxFitFrames
    /\ fit.current_exercise # "squat" => completed = 0
    /\ fit' = f2
    /\ fit_out' = [op |-> "process_frame", before |-> fit, frames |-> fit_out.frames + 1,
                   counted |-> fit_out.counted + RepsCounted(fit, f2)]
    /\ UNCHANGED <<squat_vars, det_vars, alert_vars, surv_vars, trk_vars, ppl_vars, msq_vars,
                   web_vars, shared_vars, resolve_vars, cycle_vars, det_cycle_vars, fa_vars,
                   trim_vars, hist_vars>>

fit_set_exercise_type(exercise_type) ==
    /\ fit.current_exercise # exercise_type \/ fit.auto_detect
    /\ fit' = FitnessAnalyzer_set_exercise_type(fit, exercise_type)
    /\ fit_out' = [fit_out EXCEPT !.op = "set_exercise_type", !.before = fit]
    /\ UNCHANGED <<squat_vars, det_vars, alert_vars, surv_vars, trk_vars, ppl_vars, msq_vars,
                   web_vars, shared_vars, resolve_vars, cycle_vars, det_cycle_vars, fa_vars,
                   trim_vars, hist_vars>>

enable_auto_detection ==
    /\ ~fit.auto_detect
    /\ fit' = [fit EXCEPT !.auto_detect = TRUE]
    /\ fit_out' = [fit_out EXCEPT !.op = "enable_auto_detection", !.before = fit]
    /\ UNCHANGED <<squat_vars, det_vars, alert_vars, surv_vars, trk_vars, ppl_vars, msq_vars,
                   web_vars, shared_vars, resolve_vars, cycle_vars, det_cycle_vars, fa_vars,
                   trim_vars, hist_vars>>

fit_reset_session ==
    /\ fit_out.op = "process_frame"
    /\ fit' = FitnessAnalyzer_reset_session_state(fit)
    /\ fit_out' = [fit_out EXCEPT !.op = "reset_session", !.before = fit, !.counted = 0]
    /\ UNCHANGED <<squat_vars, det_vars, alert_vars, surv_vars, trk_vars, ppl_vars, msq_vars,
                   web_vars, shared_vars, resolve_vars, cycle_vars, det_cycle_vars, fa_vars,
                   trim_vars, hist_vars>>

FitInit ==
    /\ fit = FitnessAnalyzer_new
    /\ fit_out = fit_out_init

FitNext ==
    \/ \E landmarks \in {Some(l) : l \in FitPoses} \cup {None}, completed \in {0, 1} :
          fit_process_frame(landmarks, completed)
    \/ \E exercise_type \in ExerciseType : fit_set_exercise_type(exercise_type)
    \/ enable_auto_detection
    \/ fit_reset_session

----------------------------------------------------------------------------
(* The surveillance analyzer fed with people who stand on a line, so that  *)
(* a detection can be in the range of two tracks.                          *)

MatchPositions == {<<0, 0>>, <<70, 0>>, <<120, 0>>, <<500, 0>>}
MatchInputs == {Some(<<p, 0>>) : p \in MatchPositions} \cup {None}

MatchNext ==
    \/ (now < ClockStart + MaxSurvElapsed /\ Tick)
    \/ \E pose \in MatchInputs : surv_process_frame(pose)
    \/ surv_reset_session

----------------------------------------------------------------------------
(* The alert lists of a long session: SurveillanceAnalyzer.add_alert on an  *)
(* analyzer that holds nearly max_alerts alerts, with an alert system of a *)
(* small max_alerts_in_memory.                                             *)

\* AlertConfig(max_alerts_in_memory=0)
AlertConfig_none == [AlertConfig_default EXCEPT !.max_alerts_in_memory = 0]

\* The alerts of n earlier add_alert calls, for two persons in turn.
OldAlerts(n) == [i \in 1..n |-> Alert("loitering", i \div 20, (i % 2) + 1, Tenths(7))]

trim_out_init == [called |-> FALSE, alerts_before |-> <<>>, history_before |-> <<>>,
                  alert |-> None, delivered |-> FALSE, added |-> 0]

surv_add_alert(alert_type, person_id) ==
    LET alert == Alert(alert_type, now, person_id,
                       IF alert_type = "loitering" THEN Tenths(7) ELSE Tenths(9))
        ctx == add_alert([sv |-> surv, asys |-> alert_system, emitted |-> <<>>],
                         alert, now, 0)
    IN /\ trim_out.added < MaxAdded
       /\ surv' = ctx.sv
       /\ alert_system' = ctx.asys
       /\ trim_out' = [called |-> TRUE,
                       alerts_before |-> surv.alerts,
                       history_before |-> alert_system.alert_history,
                       alert |-> Some(alert),
                       delivered |-> ctx.emitted[1].delivered,
                       added |-> trim_out.added + 1]
       /\ UNCHANGED <<now, alert_out, alert_obs, surv_out, squat_vars, det_vars, trk_vars,
                      ppl_vars, msq_vars, web_vars, shared_vars, resolve_vars, cycle_vars,
                      det_cycle_vars, fa_vars, more_vars>>

TrimInit == trim_out = trim_out_init

TrimNext ==
    \/ Tick
    \/ \E alert_type \in {"loitering", "fall_detected"}, person_id \in {1, 2} :
          surv_add_alert(alert_type, person_id)

----------------------------------------------------------------------------
(* The surveillance analyzer late in a session: one person has been seen   *)
(* in many frames, all of them out of the restricted zone, so that no      *)
(* alert has been raised yet.                                              *)
(*   frames  : the frames processed since                                  *)
(*   called  : a frame has been processed                                  *)
(*   time    : the clock reading of the last frame                         *)
(*   pose    : the pose of the last frame, None when it had no landmarks   *)
(*   before  : person_tracks before the last frame                         *)
(*   emitted : the add_alert calls of the last frame                       *)

\* Where the person stood, and the positions of the later frames: one that
\* starts a track in the zone and three within reach of the old track.
HistPosition == <<300, 300>>
HistInputs ==
    {Some(<<p, 0>>) : p \in {<<60, 100>>, HistPosition, <<379, 300>>, <<380, 300>>}}
        \cup {None}

\* time.time() of the i-th of k frames that ended at time t: 25 frames a
\* second ("dense"), or three frames half a minute ago and the others in
\* the last second ("sparse").
FrameTime(kind, k, i, t) ==
    IF kind = "dense" THEN t - ((k - i) \div 25)
    ELSE IF i <= 3 THEN t - 29 ELSE t - 1

\* The track match_people_to_tracks has built from k frames.
OldTrack(kind, k, t) ==
    [ person_id |-> 1,
      positions |-> [i \in 1..k |-> <<HistPosition[1], HistPosition[2], FrameTime(kind, k, i, t)>>],
      first_seen |-> FrameTime(kind, k, 1, t),
      last_seen |-> FrameTime(kind, k, k, t),
      in_restricted_zones |-> {},
      pose_history |-> [i \in 1..(IF k < 20 THEN k ELSE 20) |-> 0],
      alert_count |-> 0 ]

Histories == {<<"dense", 19>>, <<"dense", 49>>, <<"sparse", 9>>}

hist_init ==
    [frames |-> 0, called |-> FALSE, time |-> 0, pose |-> None, before |-> << >>,
     emitted |-> <<>>]

hist_process_frame(pose) ==
    LET r == SurveillanceAnalyzer_process_frame(surv, alert_system, now, pose) IN
    /\ hist.frames < MaxHistFrames
    /\ surv' = r.sv
    /\ alert_system' = r.asys
    /\ hist' = [frames |-> hist.frames + 1, called |-> TRUE, time |-> now, pose |-> pose,
                before |-> surv.person_tracks, emitted |-> r.emitted]
    /\ UNCHANGED <<now, alert_out, alert_obs, surv_out, squat_vars, det_vars, trk_vars,
                   ppl_vars, msq_vars, web_vars, shared_vars, resolve_vars, cycle_vars,
                   det_cycle_vars, fa_vars, trim_vars, fit_vars>>

HistInit == hist = hist_init

\* Poses of a person who stands, leans or lies at HistPosition, and of a
\* second person who stands in the zone.
FallAngles == {0, 45, 46, 90, 120, 0 - 60}
FallInputs ==
    {Some(<<HistPosition, a>>) : a \in FallAngles} \cup {Some(<<<<60, 100>>, 0>>), None}

FallNext ==
    \/ (now < ClockStart + MaxSurvElapsed /\ Tick)
    \/ \E pose \in FallInputs : hist_process_frame(pose)

HistNext ==
    \/ (now < ClockStart + MaxSurvElapsed /\ Tick)
    \/ \E pose \in HistInputs : hist_process_frame(pose)

ExtInit == PeopleInit /\ MultiInit /\ WebInit /\ SharedInit /\ ResolveInit /\ CycleInit
           /\ DetCycleInit /\ AnalyzerInit /\ TrimInit /\ HistInit /\ FitInit

Init ==
    /\ SquatInit
    /\ DetectorInit
    /\ AlertInit
    /\ SurvInit
    /\ TrackerInit
    /\ ExtInit

SpecSquat == Init /\ [][SquatNext]_vars

\* One detector object of any of the three classes.
InitDetector ==
    /\ SquatInit
    /\ AlertInit
    /\ SurvInit
    /\ TrackerInit
    /\ ExtInit
    /\ \E k \in ExerciseType : det = ExerciseDetector_init(k)

SpecDetector == InitDetector /\ [][DetectorNext]_vars

\* An alert system built by AlertSystem() or by one of the factory functions.
InitAlert ==
    /\ SquatInit
    /\ DetectorInit
    /\ SurvInit
    /\ TrackerInit
    /\ ExtInit
    /\ now = ClockStart
    /\ \E c \in {<<AlertConfig_default, FALSE>>, <<create_default_config, FALSE>>,
                  <<create_email_enabled_config, TRUE>>} :
           alert_system = AlertSystem_init(c[1], c[2])
    /\ alert_out = NoCall
    /\ alert_obs = alert_obs_init

SpecAlert == InitAlert /\ [][AlertNext]_vars

InitSurv ==
    /\ SquatInit
    /\ DetectorInit
    /\ SurvInit
    /\ TrackerInit
    /\ ExtInit
    /\ now = ClockStart
    /\ alert_system = AlertSystem_init(create_default_config, FALSE)
    /\ alert_out = NoCall
    /\ alert_obs = alert_obs_init

SpecSurv == InitSurv /\ [][SurvNext]_vars

\* The analyzer after add_restricted_zone(2, ...).
InitZones ==
    /\ SquatInit
    /\ DetectorInit
    /\ TrackerInit
    /\ ExtInit
    /\ now = ClockStart
    /\ surv = add_restricted_zone(SurveillanceAnalyzer_init, 2, zone2_points)
    /\ surv_out = surv_out_init
    /\ alert_system = AlertSystem_init(create_default_config, FALSE)
    /\ alert_out = NoCall
    /\ alert_obs = alert_obs_init

SpecZones == InitZones /\ [][ZonesNext]_vars

SpecTracker == Init /\ [][TrackerNext]_vars

SpecPeople == Init /\ [][PeopleNext]_vars

SpecMulti == Init /\ [][MultiNext]_vars

SpecCallbacks == Init /\ [][CallbackNext]_vars

SpecInactive == Init /\ [][InactiveNext]_vars

SpecWeb == Init /\ [][WebNext]_vars

SpecShared == Init /\ [][SharedNext]_vars

SpecCycle == Init /\ [][CycleNext]_vars

SpecDepth == Init /\ [][DepthNext]_vars

SpecDetCycle == InitDetector /\ [][DetCycleNext]_vars

SpecAnalyzer == Init /\ [][AnalyzerNext]_vars

SpecFitness == Init /\ [][FitNext]_vars

SpecMatch == InitSurv /\ [][MatchNext]_vars

\* A surveillance analyzer late in its session, whose alert system has been
\* cleared (clear_alert_history) or is new.
InitTrim ==
    /\ SquatInit
    /\ DetectorInit
    /\ TrackerInit
    /\ ExtInit
    /\ now = ClockStart
    /\ \E n \in {0, max_alerts - 1, max_alerts} :
           surv = [SurveillanceAnalyzer_init EXCEPT !.alerts = OldAlerts(n),
                                                   !.active_alerts = n]
    /\ surv_out = surv_out_init
    /\ \E c \in {AlertConfig_default, AlertConfig_small, AlertConfig_none} :
           alert_system = AlertSystem_init(c, FALSE)
    /\ alert_out = NoCall
    /\ alert_obs = alert_obs_init

SpecTrim == InitTrim /\ [][TrimNext]_vars

\* A surveillance analyzer that has tracked one person for a while.
InitHistory ==
    /\ SquatInit
    /\ DetectorInit
    /\ TrackerInit
    /\ ExtInit
    /\ now = ClockStart
    /\ \E h \in Histories :
           surv = [SurveillanceAnalyzer_init EXCEPT
                     !.person_tracks = [p \in {1} |-> OldTrack(h[1], h[2], ClockStart)],
                     !.next_person_id = 2,
                     !.total_people_detected = 1]
    /\ surv_out = surv_out_init
    /\ alert_system = AlertSystem_init(create_default_config, FALSE)
    /\ alert_out = NoCall
    /\ alert_obs = alert_obs_init

SpecHistory == InitHistory /\ [][HistNext]_vars

SpecFall == InitSurv /\ [][FallNext]_vars

\* An alert system that keeps two records.
InitResolve ==
    /\ SquatInit
    /\ DetectorInit
    /\ SurvInit
    /\ TrackerInit
    /\ ExtInit
    /\ now = ClockStart
    /\ alert_system = AlertSystem_init(AlertConfig_small, FALSE)
    /\ alert_out = NoCall
    /\ alert_obs = alert_obs_init

SpecResolve == InitResolve /\ [][ResolveNext]_vars

----------------------------------------------------------------------------
(* Properties of the squat tracker.                                        *)

UpdateStep == \E in \in LegInputs : update(in[1], in[2])

\* C1 (as stated): after the seven updates 170, 150, 120, 95, 120, 150, 170
\* the committed states are STANDING, DESCENDING, BOTTOM, ASCENDING,
\* STANDING, one rep has been counted by the last update and its minimum
\* angle is 95.
C1_ScriptCountsOneRep ==
    obs.pos = Len(SquatScript) =>
        /\ obs.commits = <<"standing", "descending", "bottom", "ascending", "standing">>
        /\ sq.rep_count = 1
        /\ sq_result.rep_completed
        /\ sq.rep_angles = <<Deg(95)>>

\* C1 (amended): after the seven updates 170, 150, 120, 95, 120, 150, 170
\* the committed states are DESCENDING (4th update) and ASCENDING (7th
\* update) only; STANDING and BOTTOM are never entered, no rep is counted
\* and no minimum angle is recorded.
C1_ScriptCountsNoRep ==
    obs.pos = Len(SquatScript) =>
        /\ obs.commits = <<"descending", "ascending">>
        /\ sq.current_state = "ascending"
        /\ sq.previous_state = "descending"
        /\ sq.rep_count = 0
        /\ ~sq_result.rep_completed
        /\ sq.min_angle_in_rep = None
        /\ sq.rep_angles = <<>>

C1_Witness ==
    /\ obs.pos = Len(SquatScript)
    /\ sq.knee_angles = SubSeq(SquatScript, 3, 7)

\* C2: an update changes rep_count by 0 or +1, and by +1 only when it
\* commits ASCENDING -> STANDING while a minimum angle is recorded; updates
\* spent in STANDING afterwards do not count the same commit again.
C2_RepCountStep ==
    [][UpdateStep =>
         /\ sq'.rep_count \in {sq.rep_count, sq.rep_count + 1}
         /\ sq'.rep_count = sq.rep_count + 1 =>
              /\ sq.current_state = "ascending"
              /\ sq'.current_state = "standing"
              /\ sq'.previous_state = "ascending"
              /\ sq.min_angle_in_rep # None
              /\ sq_result'.rep_completed]_vars

C2_Witness ==
    /\ sq.rep_count = 1
    /\ sq.current_state = "standing"
    /\ sq.previous_state = "ascending"
    /\ sq.state_frame_count >= min_state_duration

\* C3: an update changes current_state only to a state that has been the
\* newly computed state on min_state_duration consecutive updates.
C3_CommitNeedsStableCandidate ==
    [][UpdateStep /\ sq'.current_state # sq.current_state =>
         /\ obs'.cand = sq'.current_state
         /\ obs'.run >= min_state_duration]_vars

\* C4: an update without a knee angle leaves the smoothing window, the
\* smoothed angle, both states and rep_count unchanged and reports
\* rep_completed false.
C4_NoAngleHoldsState ==
    [][update(None, None) =>
         /\ sq'.knee_angles = sq.knee_angles
         /\ sq'.smoothed_angle = sq.smoothed_angle
         /\ sq'.current_state = sq.current_state
         /\ sq'.previous_state = sq.previous_state
         /\ sq'.rep_count = sq.rep_count
         /\ ~sq_result'.rep_completed]_vars

----------------------------------------------------------------------------
(* Properties of the exercise detectors.                                   *)

\* C5: the form score of a detector stays within [60, 100] after any
\* sequence of processed frames and session resets.
C5_FormScoreClamped ==
    /\ Score(60) <= det.form_score
    /\ det.form_score <= Score(100)

C5_Witness ==
    /\ det.form_score = Score(60)
    /\ det.exercise_type = "pushup"
    /\ det.phase = "bottom"
    /\ det.last_angle = 70

----------------------------------------------------------------------------
(* Properties of the alert system.                                         *)

\* C6: a call for a pair made less than alert_cooldown_seconds after the
\* last delivered call for that pair is not delivered, so of two such calls
\* exactly one is; a call for a pair that has no delivery yet, or whose
\* last delivery is at least alert_cooldown_seconds old, is delivered
\* (returns True and is added to alert_history).
C6_CooldownPerPair ==
    [][\A ty \in AlertTypes, pid \in PersonIdArgs :
         trigger_alert(ty, pid) =>
           LET d == alert_obs[<<ty, pid>>]
               within == d # None /\ now - d[1] < alert_system.config.alert_cooldown_seconds
           IN /\ within => ~alert_out'.ret
              /\ ~within =>
                   /\ alert_out'.ret
                   /\ alert_system'.alert_history =
                        Append(alert_system.alert_history, alert_data(now, ty, pid))]_vars

\* C7: a call that is in cooldown returns False; a call that returns False
\* changes nothing of the alert system and invokes no logging, sound,
\* email or callback; a call that is not in cooldown returns True.
C7_SuppressedCallHasNoEffect ==
    [][\A ty \in AlertTypes, pid \in PersonIdArgs :
         trigger_alert(ty, pid) =>
           /\ is_alert_cooled_down(alert_system, now, ty, pid) <=> ~alert_out'.ret
           /\ ~alert_out'.ret =>
                /\ alert_system'.alert_history = alert_system.alert_history
                /\ alert_system'.stats = alert_system.stats
                /\ alert_system'.last_alert_times = alert_system.last_alert_times
                /\ alert_out'.effects = {}
           /\ alert_out'.ret => alert_system'.stats.total_alerts
                                  = alert_system.stats.total_alerts + 1]_vars

C7_Witness ==
    /\ alert_out.call # None
    /\ ~alert_out.ret
    /\ alert_system.stats.total_alerts >= 1
    /\ alert_system.real_time_callback

\* C8: when the position of a track moves from outside to inside an enabled
\* restricted zone, exactly one entry alert for that track and zone is
\* emitted on that frame, and none on the later frames during which the
\* position stays inside the zone.
C8_EntryAlertOnceWhileInside ==
    /\ \A pz \in surv_out.crossed : EntryAlerts(surv_out.emitted, pz[1], pz[2]) = 1
    /\ \A pz \in surv_out.stayed : EntryAlerts(surv_out.emitted, pz[1], pz[2]) = 0

\* C9: after the frame on which the position of a track leaves a zone, the
\* zone is not in the track's in_restricted_zones and the frame has emitted
\* no alert for the zone; the frame on which the track re-enters a zone it
\* had left emits one entry alert for it.
C9_ExitUnmarksReentryAlerts ==
    /\ \A pz \in surv_out.left :
          /\ pz[2] \notin surv.person_tracks[pz[1]].in_restricted_zones
          /\ \A i \in 1..Len(surv_out.emitted) :
                ~(surv_out.emitted[i].person_id = pz[1] /\ surv_out.emitted[i].zone_id = pz[2])
    /\ \A pz \in surv_out.reentered : EntryAlerts(surv_out.emitted, pz[1], pz[2]) = 1

\* C9 witness: a frame has taken a track back into a zone it had left: the
\* entry alert is the second of the track and the zone is marked again.
C9_Witness ==
    \E pz \in surv_out.reentered :
        /\ EntryAlerts(surv_out.emitted, pz[1], pz[2]) = 1
        /\ pz[2] \in surv.person_tracks[pz[1]].in_restricted_zones
        /\ surv.person_tracks[pz[1]].alert_count >= 2

\* C10: a track is removed by the update call that makes more than
\* max_frames_missing consecutive update calls without a detection matched
\* to it, and by no earlier one; no track the tracker creates afterwards
\* (until it is reset) bears the id of a removed track, also when its
\* detection is at the place of that track.
C10_StaleRemovalFreshId ==
    /\ \A pid \in DOMAIN trk.tracked_persons : trk_out.misses[pid] <= max_frames_missing
    /\ \A pid \in DOMAIN trk_out.removed : trk_out.removed[pid] = max_frames_missing + 1
    /\ \A pid \in DOMAIN trk.tracked_persons : pid \notin DOMAIN trk_out.evicted

\* C10 witness: the last update has created a track at the centroid of a
\* track that was removed earlier.
C10_Witness ==
    \E pid \in trk_out.created, old \in DOMAIN trk_out.evicted :
        /\ trk.tracked_persons[pid].centroid = trk_out.evicted[old]
        /\ pid # old

\* An update call of the person tracker
TrackerUpdateStep == \E detections \in DetectionLists : tracker_update(detections)

\* C11: over any sequence of update and reset calls, every id given to a new
\* track is larger than every id given out before, so that no id is given to
\* two tracks.
C11_IdsIncreaseNeverReused ==
    [][TrackerUpdateStep =>
         \A pid \in trk_out'.created : \A old \in trk_issued : old < pid]_vars

\* The tracks within max_distance of the lone detection of the last update,
\* and the tracks the update matched to a detection.
TracksInRange ==
    {pid \in DOMAIN trk_out.before :
        SqDist(trk_out.before[pid], trk_out.detections[1]) <= max_distance * max_distance}
MatchedTracks == DOMAIN trk_out.assignments \cap DOMAIN trk_out.before

\* A track is matched only to a detection within max_distance of its centroid.
MatchedWithinRange ==
    \A pid \in MatchedTracks :
        SqDist(trk_out.before[pid], trk_out.detections[trk_out.assignments[pid]])
            <= max_distance * max_distance

\* With tracks at (0,0) and (500,500) only and the lone detection at (10,10),
\* the detection gets the id of the track at (0,0).
ExampleNearTrack ==
    (/\ Len(trk_out.detections) = 1
     /\ trk_out.detections[1] = <<10, 10>>
     /\ {trk_out.before[pid] : pid \in DOMAIN trk_out.before} = {<<0, 0>>, <<500, 500>>}
     /\ Cardinality(DOMAIN trk_out.before) = 2)
    => \E pid \in DOMAIN trk_out.assignments :
          /\ pid \in DOMAIN trk_out.before
          /\ trk_out.before[pid] = <<0, 0>>
          /\ DOMAIN trk_out.assignments = {pid}

\* C12 as stated: a track is matched only to a detection within max_distance,
\* and a lone detection gets the id of the nearest track within max_distance.
C12_LoneDetectionNearestTrack ==
    /\ MatchedWithinRange
    /\ ExampleNearTrack
    /\ (Len(trk_out.detections) = 1 /\ TracksInRange # {}) =>
          \E pid \in MatchedTracks \cap TracksInRange :
              \A other \in TracksInRange :
                  SqDist(trk_out.before[pid], trk_out.detections[1])
                      <= SqDist(trk_out.before[other], trk_out.detections[1])

\* C12 amended: a track is matched only to a detection within max_distance,
\* and a lone detection gets the id of the first track, in the order of the
\* ids, that lies within max_distance of it; in the example that is the
\* track at (0,0).
C12_LoneDetectionFirstTrackInRange ==
    /\ MatchedWithinRange
    /\ ExampleNearTrack
    /\ (Len(trk_out.detections) = 1 /\ TracksInRange # {}) =>
          \E pid \in TracksInRange :
              /\ \A other \in TracksInRange : pid <= other
              /\ DOMAIN trk_out.assignments = {pid}

\* C12 witness: the example, after the update with the detection at (10,10).
C12_Witness ==
    /\ trk_out.detections = << <<10, 10>> >>
    /\ {trk_out.before[pid] : pid \in DOMAIN trk_out.before} = {<<0, 0>>, <<500, 500>>}
    /\ \E pid \in DOMAIN trk_out.assignments :
          trk_out.before[pid] = <<0, 0>> /\ trk.tracked_persons[pid].centroid = <<10, 10>>

\* C13: in the result of every update, each detection of the frame appears
\* under exactly one id: every detection index is the value of some id, no
\* two ids have the same detection, and the ids that were tracks before the
\* update have one detection each.
C13_OneToOneAssignment ==
    LET a == trk_out.assignments
    IN /\ \A pid \in DOMAIN a : a[pid] \in 1..Len(trk_out.detections)
       /\ \A i \in 1..Len(trk_out.detections) : \E pid \in DOMAIN a : a[pid] = i
       /\ \A p \in DOMAIN a : \A q \in DOMAIN a : a[p] = a[q] => p = q
       /\ Cardinality(MatchedTracks) = Cardinality({a[pid] : pid \in MatchedTracks})

\* C13 witness: an update with one detection within max_distance of two
\* tracks, of which one took it.
C13_Witness ==
    /\ Len(trk_out.detections) = 1
    /\ Cardinality(TracksInRange) = 2
    /\ Cardinality(DOMAIN trk_out.assignments) = 1

\* People whose detections have all been more than max_distance away from
\* every detection of every other person.
Apart(p) ==
    \A q \in People \ {p} : \A c \in ppl_out.seen[p] : \A d \in ppl_out.seen[q] :
        SqDist(c, d) > max_distance * max_distance

\* C14 as stated: a person who moves less than max_distance between
\* consecutive frames and is never missing for more than max_frames_missing
\* frames is reported under the same id in every update that detects them.
C14_StableIds ==
    \A p \in People : ppl_out.moved[p] => ppl_out.stable[p]

\* C14 amended: such a person is reported under the same id in every update
\* that detects them when, in addition, every detection of the person is
\* more than max_distance away from every detection of every other person.
C14_StableIdsWhenApart ==
    \A p \in People : (ppl_out.moved[p] /\ Apart(p)) => ppl_out.stable[p]

\* C14 witness: two people, each detected at two places, one of them missing
\* from a frame in between, both reported under their own id throughout.
C14_Witness ==
    /\ \A p \in People : /\ ppl_out.moved[p] /\ Apart(p) /\ ppl_out.stable[p]
                         /\ Cardinality(ppl_out.seen[p]) = 2
    /\ ppl_trk.frame_count >= 3
    /\ \E p \in People : ppl_trk.tracked_persons[ppl_out.id[p][1]].last_seen < ppl_trk.frame_count - 1 
                         \/ ppl_out.missing[p] > 0

\* C15: after reset_session, get_aggregate_stats reports total_reps = 0
\* and the keys of trackers are the keys from before the reset.
C15_ResetKeepsIds ==
    msq_out.op = "reset_session" =>
        /\ get_aggregate_stats(msq).total_reps = 0
        /\ DOMAIN msq.trackers = msq_out.keys_before
        /\ {msq.keys[i] : i \in 1..Len(msq.keys)} = msq_out.keys_before

\* C15 witness: a reset of a coordinator of two people who had counted reps.
C15_Witness ==
    /\ msq_out.op = "reset_session"
    /\ msq_out.total_reps_before >= 3
    /\ msq_out.keys_before = SquatPersonIds

\* C16 as stated: update_person for an id that is not a key of trackers
\* creates the id's tracker and invokes on_new_person once; every later
\* update_person for that id advances the same tracker and invokes no
\* on_new_person.
C16_CreatedOnceForEver ==
    msq_out.op = "update_person" =>
        /\ ~msq_out.sighted =>
              /\ msq_out.created
              /\ msq_out.subscribed => msq_out.new_person_events = 1
        /\ msq_out.sighted => msq_out.reused /\ msq_out.new_person_events = 0

\* C16 amended: the later calls advance the same tracker and invoke no
\* on_new_person for as long as the id stays a key of trackers; after
\* remove_inactive_trackers has removed the id, the next update_person
\* creates a new tracker and invokes on_new_person again.
C16_CreatedOnceWhileKnown ==
    msq_out.op = "update_person" =>
        /\ msq_out.person_id \in DOMAIN msq.trackers
        /\ ~msq_out.known =>
              /\ msq_out.created
              /\ msq_out.subscribed => msq_out.new_person_events = 1
              /\ ~msq_out.subscribed => msq_out.new_person_events = 0
        /\ msq_out.known => msq_out.reused /\ msq_out.new_person_events = 0

\* C16 witness: an update_person for an id whose tracker was removed, which
\* creates a new tracker and invokes on_new_person, with a second id known.
C16_Witness ==
    /\ msq_out.op = "update_person"
    /\ msq_out.sighted
    /\ ~msq_out.known
    /\ msq_out.created
    /\ msq_out.new_person_events = 1
    /\ Len(msq.keys) = 2

\* The rep counts of the owned trackers, and their sum over a set of ids.
RepCount(pid) == msq.trackers[pid].state.rep_count
RECURSIVE SumRepCounts(_)
SumRepCounts(ids) ==
    IF ids = {} THEN 0
    ELSE LET pid == CHOOSE x \in ids : TRUE
         IN RepCount(pid) + SumRepCounts(ids \ {pid})

\* C17: get_aggregate_stats returns the sum of the rep counts as total_reps,
\* the number of trackers as active_people, total_reps / active_people as
\* avg_reps_per_person (0 without trackers), the largest rep count as
\* best_rep_count, and as best_performer an id with that count, None when
\* every count is 0.
C17_AggregateStats ==
    LET stats == get_aggregate_stats(msq)
        ids == DOMAIN msq.trackers
    IN /\ stats.total_reps = SumRepCounts(ids)
       /\ stats.active_people = Cardinality(ids)
       /\ ids = {} => stats.avg_reps_per_person = 0
       /\ ids # {} => stats.avg_reps_per_person * Cardinality(ids) = stats.total_reps * AvgScale
       /\ \A pid \in ids : RepCount(pid) <= stats.best_rep_count
       /\ (\A pid \in ids : RepCount(pid) = 0) =>
             stats.best_performer = None /\ stats.best_rep_count = 0
       /\ (\E pid \in ids : RepCount(pid) > 0) =>
             /\ stats.best_performer # None
             /\ stats.best_performer[1] \in ids
             /\ RepCount(stats.best_performer[1]) = stats.best_rep_count

\* C17 witness: two trackers with 0 and 1 reps, the later one in the dict
\* being the best performer, and an average of half a rep.
C17_Witness ==
    /\ Len(msq.keys) = 2
    /\ RepCount(msq.keys[1]) = 0
    /\ RepCount(msq.keys[2]) = 1
    /\ get_aggregate_stats(msq).best_performer = Some(msq.keys[2])
    /\ get_aggregate_stats(msq).avg_reps_per_person * 2 = AvgScale

\* C18: an update_person call whose on_state_changed, on_rep_completed or
\* on_new_person callback raises still completes and returns its result, and
\* leaves the trackers as they would be had the callback returned normally.
C18_RaisingCallbackIsolated ==
    msq_out.op = "update_person" =>
        /\ ~msq_out.raised
        /\ msq_out.returned # NoResult
        /\ msq_out.as_normal

\* C19: the state of the analyzers is mutated by the frame loop only: no
\* request handler mutates it, and none does so while a frame is being
\* processed.
C19_OnlyFrameLoopMutates ==
    /\ web_out.writer # "handler"
    /\ ~web_out.mid_frame

\* C20: at any time at most one frame loop runs and at most one call of
\* process_frame is in progress, however many clients have requested the
\* video feed.
C20_SingleProcessingLoop ==
    /\ Cardinality({c \in Clients : web.generators[c] # "none"}) <= 1
    /\ Cardinality(Processing(web)) <= 1

----------------------------------------------------------------------------
(* Properties of the shared fields of the web application.                 *)

\* C21: every write of the stats fields and of the latest frame by the frame
\* loop, and every read of them by an HTTP handler, is made while the accessing
\* thread holds VisionTrackApp.lock, and the stats snapshot a handler reads is
\* never a partly updated one: its session_reps and active_people come from the
\* same session summary.
C21_SharedStateUnderLock ==
    /\ shared_out.op \in {"write_stats", "write_frame", "read_stats"} => shared_out.lock_held
    /\ shared_out.snapshot /= None =>
          <<shared_out.snapshot[1].session_reps, shared_out.snapshot[1].active_people>>
              \in shared_out.complete

----------------------------------------------------------------------------
(* Properties of the resolved flag of the alert records.                   *)

\* The records of a history, without their flags, and the flag of a record.
\* Two records of one history differ in timestamp, alert type or person id.
RecordKey(rec) == <<rec.timestamp, rec.alert_type, rec.person_id>>
RecordKeys(a) == {RecordKey(a.alert_history[i]) : i \in 1..Len(a.alert_history)}
Resolved(a, key) ==
    \E i \in 1..Len(a.alert_history) :
        RecordKey(a.alert_history[i]) = key /\ a.alert_history[i].resolved

ResolveStep == \E alert_index \in ResolveIndexes : resolve_alert(alert_index)

\* C22: a record enters alert_history with resolved = False; the flag of a
\* record changes only in a resolve_alert call; a flag that is True stays
\* True; and resolve_alert with an index outside alert_history returns False
\* and leaves every record as it was.
C22_ResolvedFlag ==
    [][ /\ \A key \in RecordKeys(alert_system') \ RecordKeys(alert_system) :
               ~Resolved(alert_system', key)
        /\ \A key \in RecordKeys(alert_system') \cap RecordKeys(alert_system) :
               /\ Resolved(alert_system, key) => Resolved(alert_system', key)
               /\ Resolved(alert_system', key) # Resolved(alert_system, key) => ResolveStep
        /\ \A alert_index \in ResolveIndexes :
               resolve_alert(alert_index)
                 /\ (alert_index < 0 \/ alert_index >= Len(alert_system.alert_history))
               => /\ ~resolve_out'.ret
                  /\ alert_system'.alert_history = alert_system.alert_history ]_vars

\* C22 witness: the last resolve_alert call had an index outside the history
\* of an alert system that holds a resolved and an unresolved record.
C22_Witness ==
    /\ resolve_out.alert_index # None
    /\ ~resolve_out.ret
    /\ \E key \in RecordKeys(alert_system) : Resolved(alert_system, key)
    /\ \E key \in RecordKeys(alert_system) : ~Resolved(alert_system, key)

----------------------------------------------------------------------------
(* Properties of the cooldown keys of the alert system.                    *)

\* C23: the cooldown is kept per (alert_type, person_id) pair: a
\* trigger_alert call is suppressed only when a call for the same pair was
\* delivered less than alert_cooldown_seconds before; a delivery for another
\* pair, person id 0 and the absent person id included, never suppresses it.
C23_CooldownKeyPerPair ==
    [][\A ty \in AlertTypes, pid \in PersonIdArgs :
         trigger_alert(ty, pid) /\ ~alert_out'.ret =>
           /\ alert_obs[<<ty, pid>>] # None
           /\ now - alert_obs[<<ty, pid>>][1] < alert_system.config.alert_cooldown_seconds]_vars

----------------------------------------------------------------------------
(* Properties of the squat cycles.                                         *)

\* C24: when an update counts a rep, the state was BOTTOM at some update
\* after the tracker was last STANDING before: the minimum angle that
\* licenses the rep was recorded in the BOTTOM phase of the cycle that ends,
\* not left over from an earlier cycle that was not counted.
C24_RepNeedsBottomInCycle ==
    sq_result.rep_completed => cycle.bottom_before

\* C25: rep_angles has rep_count entries in every state; an update that
\* completes a rep appends one value to rep_angles, the least smoothed angle
\* seen in BOTTOM since the previous completion, sets min_angle_in_rep to
\* None and passes (person_id, the new rep_count, that angle) to
\* on_rep_completed; any other update leaves rep_angles as it was.
C25_RepAnglesLog ==
    /\ Len(sq.rep_angles) = sq.rep_count
    /\ sq_result.rep_completed =>
          /\ cycle.min_before # None
          /\ sq.rep_angles = Append(cycle.angles_before, cycle.min_before[1])
          /\ sq.min_angle_in_rep = None
          /\ cycle.callback =
                Some(<<SquatTracker_person_id, sq.rep_count, cycle.min_before[1]>>)
    /\ ~sq_result.rep_completed =>
          /\ sq.rep_angles = cycle.angles_before
          /\ cycle.callback = None

\* C25 witness: the second rep has just been completed, with a minimum that
\* differs from the one of the first rep.
C25_Witness ==
    /\ sq_result.rep_completed
    /\ sq.rep_count = 2
    /\ sq.rep_angles[1] # sq.rep_angles[2]
    /\ cycle.callback # None

----------------------------------------------------------------------------
(* Properties of the angle cycles of the exercise detectors.               *)

\* C26: for each of the three detectors, a full cycle of angles - from beyond
\* the rest threshold through the intermediate band beyond the opposite
\* threshold and back through the band to beyond the rest threshold -
\* increments rep_count by exactly 1.
C26_CycleCountsOneRep ==
    det_cycle.stage = 5 => det_cycle.delta = 1

----------------------------------------------------------------------------
(* Properties of the candidate state of the squat tracker.                 *)

----------------------------------------------------------------------------
(* Properties of the exercise detection of the fitness analyzer.           *)

\* C28: detect_exercise_type returns one of the exercise types whose
\* detector's detect_exercise is true, with a confidence that none of them
\* exceeds; when no detector answers it returns the current exercise, which
\* the call itself leaves unchanged.
C28_DetectHighestConfidence ==
    fa_out.ret # None =>
       /\ fa_out.detected # {} =>
             /\ fa_out.ret[1] \in fa_out.detected
             /\ \A k \in fa_out.detected :
                    fa_out.confidence[k] <= fa_out.confidence[fa_out.ret[1]]
       /\ fa_out.detected = {} =>
             /\ fa_out.ret[1] = fa_out.current_exercise
             /\ fa.current_exercise = fa_out.current_exercise

\* C28 witness: all detectors answered, with three different confidences, and
\* the call returned a type that is not the first of the detectors.
C28_Witness ==
    /\ fa_out.ret = Some("pushup")
    /\ fa_out.detected = ExerciseType
    /\ fa_out.confidence["squat"] = 0
    /\ fa_out.confidence["pushup"] = 8
    /\ fa_out.confidence["bicep_curl"] = 7

----------------------------------------------------------------------------
(* Properties of the matching of people to surveillance tracks.            *)

\* The tracks whose last position is less than 100 px from a position.
InRange(sv, position) ==
    {pid \in DOMAIN sv.person_tracks :
        LET ps == sv.person_tracks[pid].positions
        IN Len(ps) > 0 /\ SqDist(position, ps[Len(ps)]) < 100 * 100}

LastDist(sv, pid, position) ==
    SqDist(position, sv.person_tracks[pid].positions[Len(sv.person_tracks[pid].positions)])

\* C29: a frame appends the detected position to the nearest of the tracks
\* within 100 px and creates no track; when no track is within 100 px it
\* creates a track with the next id and increments total_people_detected by
\* 1; in a frame without a person and in every other step short of a session
\* reset the counter keeps its value.
C29_MatchNearestOrCreate ==
    [][ /\ \A pose \in MatchInputs :
             surv_process_frame(pose) =>
               IF pose = None
               THEN surv'.total_people_detected = surv.total_people_detected
               ELSE LET position == pose[1][1]
                        near == InRange(surv, position)
                        sample == <<position[1], position[2], now>>
                    IN IF near # {}
                       THEN /\ DOMAIN surv'.person_tracks = DOMAIN surv.person_tracks
                            /\ surv'.total_people_detected = surv.total_people_detected
                            /\ \E pid \in near :
                                 /\ \A q \in near : LastDist(surv, pid, position)
                                                       <= LastDist(surv, q, position)
                                 /\ surv'.person_tracks[pid].positions =
                                      Append(surv.person_tracks[pid].positions, sample)
                                 /\ \A q \in DOMAIN surv.person_tracks \ {pid} :
                                      surv'.person_tracks[q].positions
                                        = surv.person_tracks[q].positions
                       ELSE /\ DOMAIN surv'.person_tracks =
                                 DOMAIN surv.person_tracks \cup {surv.next_person_id}
                            /\ surv.next_person_id \notin DOMAIN surv.person_tracks
                            /\ surv'.person_tracks[surv.next_person_id].positions = <<sample>>
                            /\ surv'.next_person_id = surv.next_person_id + 1
                            /\ surv'.total_people_detected = surv.total_people_detected + 1
        /\ surv'.total_people_detected # surv.total_people_detected =>
             \/ \E pose \in MatchInputs : surv_process_frame(pose)
             \/ surv_reset_session ]_vars

\* C29 witness: a position in the range of two tracks has been appended to
\* the second track, the nearer one, and two people have been counted.
C29_Witness ==
    /\ DOMAIN surv.person_tracks = {1, 2}
    /\ surv.total_people_detected = 2
    /\ Len(surv.person_tracks[1].positions) = 1
    /\ Len(surv.person_tracks[2].positions) = 2
    /\ surv.person_tracks[1].positions[1][1] = 0
    /\ surv.person_tracks[2].positions[1][1] = 120
    /\ surv.person_tracks[2].positions[2][1] = 70

----------------------------------------------------------------------------
(* Properties of the bounded alert lists.                                  *)

\* s is the list of the newest n entries of full, in their order.
NewestOf(s, full, n) ==
    /\ Len(s) = (IF Len(full) < n THEN Len(full) ELSE n)
    /\ \A i \in 1..Len(s) : s[i] = full[Len(full) - Len(s) + i]

\* C30: alert_history holds at most max_alerts_in_memory entries and
\* SurveillanceAnalyzer.alerts at most max_alerts; after an add_alert call
\* each list holds the newest entries of the list before the call extended
\* by the new entry, in their order of arrival, the oldest being dropped.
C30_BoundedAlertLists ==
    /\ Len(alert_system.alert_history) <= alert_system.config.max_alerts_in_memory
    /\ Len(surv.alerts) <= max_alerts
    /\ trim_out.called =>
          /\ NewestOf(surv.alerts, Append(trim_out.alerts_before, trim_out.alert[1]),
                      max_alerts)
          /\ trim_out.delivered =>
                NewestOf(alert_system.alert_history,
                         Append(trim_out.history_before,
                                alert_system.alert_history[Len(alert_system.alert_history)]),
                         alert_system.config.max_alerts_in_memory)

----------------------------------------------------------------------------
(* Properties of the histories of the surveillance tracks.                 *)

TimeOrdered(ps) == \A i, j \in 1..Len(ps) : i <= j => ps[i][3] <= ps[j][3]

\* C31: every track holds at most 50 positions and at most 20 poses, the
\* timestamps of its positions never decrease along the list, and a frame
\* that extends a track leaves it with the newest 50 of the old positions
\* extended by the new one, and the newest 20 of its poses.
C31_BoundedTimeOrderedHistory ==
    \A pid \in DOMAIN surv.person_tracks :
       LET track == surv.person_tracks[pid] IN
       /\ Len(track.positions) <= 50
       /\ Len(track.pose_history) <= 20
       /\ TimeOrdered(track.positions)
       /\ (hist.called /\ pid \in DOMAIN hist.before
             /\ track.positions # hist.before[pid].positions) =>
             /\ NewestOf(track.positions,
                         Append(hist.before[pid].positions,
                                track.positions[Len(track.positions)]), 50)
             /\ NewestOf(track.pose_history,
                         Append(hist.before[pid].pose_history,
                                track.pose_history[Len(track.pose_history)]), 20)
             /\ track.positions[Len(track.positions)][3] = hist.time

\* C31 witness: a frame has extended a track that held 50 positions and
\* 20 poses, the oldest position was dropped and the track spans more than
\* one clock reading.
C31_Witness ==
    /\ hist.called
    /\ \E pid \in DOMAIN hist.before :
          LET old == hist.before[pid]
              track == surv.person_tracks[pid]
          IN /\ Len(old.positions) = 50
             /\ Len(old.pose_history) = 20
             /\ track.positions # old.positions
             /\ Len(track.positions) = 50
             /\ track.positions[1][3] < track.positions[50][3]

----------------------------------------------------------------------------
(* Properties of the loitering test.                                       *)

\* The tracks analyze_person was called for in the last frame.
Analyzed(pid) ==
    /\ hist.called
    /\ hist.pose # None
    /\ hist.time - surv.person_tracks[pid].last_seen < 1

Emitted(alert_type, pid) ==
    Cardinality({i \in 1..Len(hist.emitted) :
                   /\ hist.emitted[i].alert_type = alert_type
                   /\ hist.emitted[i].person_id = pid})

\* A hundred times the sum, over the ten positions r, of the squared
\* distance to their centroid: a thousand times their variance.
Scatter(r) ==
    LET sx == SeqSum([i \in 1..10 |-> r[i][1]])
        sy == SeqSum([i \in 1..10 |-> r[i][2]])
    IN SeqSum([i \in 1..10 |-> (10 * r[i][1] - sx) * (10 * r[i][1] - sx)
                                + (10 * r[i][2] - sy) * (10 * r[i][2] - sy)])

Loiters(ps) ==
    /\ Len(ps) >= 10
    /\ LET r == [i \in 1..10 |-> ps[Len(ps) - 10 + i]]
       IN /\ Scatter(r) < 1000 * 1000
          /\ r[10][3] - r[1][3] > loitering_time

\* C32: a frame emits one LOITERING alert for an analysed track that has at
\* least 10 positions whose last 10 have a variance below 1000 around their
\* centroid and span more than loitering_time seconds, and no LOITERING
\* alert for any other track.
C32_LoiteringExactly ==
    \A pid \in DOMAIN surv.person_tracks :
       Emitted("loitering", pid) =
          (IF Analyzed(pid) /\ Loiters(surv.person_tracks[pid].positions) THEN 1 ELSE 0)

\* C32 witness: the last frame emitted a LOITERING alert for a track whose
\* last ten positions are not all the same.
C32_Witness ==
    \E pid \in DOMAIN surv.person_tracks :
       /\ Emitted("loitering", pid) = 1
       /\ LET ps == surv.person_tracks[pid].positions
          IN \E i \in 1..10 : ps[Len(ps) - 10 + i][1] # ps[Len(ps)][1]

----------------------------------------------------------------------------
(* Properties of the fall detection.                                       *)

LatestAngle(pid) ==
    LET ph == surv.person_tracks[pid].pose_history IN Abs(ph[Len(ph)])

FallAlerts(pid) ==
    {i \in 1..Len(hist.emitted) : /\ hist.emitted[i].alert_type = "fall_detected"
                                  /\ hist.emitted[i].person_id = pid}

\* The frame emits a FALL_DETECTED alert for exactly the analysed tracks
\* whose latest pose is more than fall_angle_threshold from the vertical.
FallExactly ==
    \A pid \in DOMAIN surv.person_tracks :
       Cardinality(FallAlerts(pid)) =
          (IF Analyzed(pid) /\ LatestAngle(pid) > fall_angle_threshold THEN 1 ELSE 0)

\* A confidence c (in ninetieths) that grows linearly from 0 at the
\* threshold: with the slope of 1 per 45 degrees, capped at 0.9, or with
\* the slope that reaches 0.9 at 90 degrees.
LinearFromThreshold(c, angle) ==
    \/ c = Min2(Tenths(9), 2 * (angle - fall_angle_threshold))
    \/ 45 * c = Tenths(9) * Min2(angle - fall_angle_threshold, 45)

\* C33: a FALL_DETECTED alert is emitted for a track on a frame exactly when
\* the absolute posture angle of its latest pose exceeds the threshold of
\* 45 degrees, and its confidence grows linearly from 0 at the threshold
\* towards its maximum at 90 degrees.
C33_FallAlertConfidence ==
    /\ FallExactly
    /\ \A pid \in DOMAIN surv.person_tracks :
          \A i \in FallAlerts(pid) :
             LinearFromThreshold(hist.emitted[i].confidence, LatestAngle(pid))

----------------------------------------------------------------------------
(* Properties of the eviction of inactive trackers.                        *)

\* The trackers whose last completed rep is more than threshold seconds
\* before t.
InactiveIds(m, t, threshold) ==
    {pid \in DOMAIN m.trackers :
        /\ m.trackers[pid].state.rep_count > 0
        /\ m.trackers[pid].last_rep_time # None
        /\ m.trackers[pid].last_rep_time[1] + threshold < t}

----------------------------------------------------------------------------
(* Properties of the cooldown window of the alert system.                  *)

\* C35: the cooldown window of a pair starts at the last delivered alert of
\* the pair: a suppressed call leaves the recorded delivery times as they
\* were, and a call made alert_cooldown_seconds or more after the last
\* delivery of its pair is delivered, however many calls were suppressed
\* in between.
C35_WindowFromLastDelivery ==
    [][\A ty \in AlertTypes, pid \in PersonIdArgs :
         trigger_alert(ty, pid) =>
           LET d == alert_obs[<<ty, pid>>] IN
           /\ ~alert_out'.ret =>
                 alert_system'.last_alert_times = alert_system.last_alert_times
           /\ (d # None /\ now - d[1] >= alert_system.config.alert_cooldown_seconds) =>
                 /\ alert_out'.ret
                 /\ last_alert_time(alert_system', cooldown_key(ty, pid)) = now]_vars

----------------------------------------------------------------------------
(* Properties of the delivery of the zone entry alerts.                    *)

\* The add_alert calls of the last frame that came with the marking of a
\* zone.
EntryCalls(emitted) ==
    {i \in 1..Len(emitted) : emitted[i].alert_type = "restricted_zone_entry"}

\* C36 (as stated): every zone entry that marks a zone in a track's
\* in_restricted_zones comes with a RESTRICTED_ZONE_ENTRY alert that the
\* alert system delivers (trigger_alert returns True).
C36_EntryAlertDelivered ==
    \A i \in EntryCalls(surv_out.emitted) : surv_out.emitted[i].delivered

\* C36 (amended): every zone entry that marks a zone comes with one
\* RESTRICTED_ZONE_ENTRY alert that is appended to the analyzer's alerts and
\* passed to trigger_alert; the alert system delivers it exactly when no
\* RESTRICTED_ZONE_ENTRY alert of that person was delivered less than
\* alert_cooldown_seconds before, so an entry that follows the entry into
\* another zone, or a re-entry, within the cooldown is marked and not
\* delivered.
C36_EntryAlertDeliveredAfterCooldown ==
    [][\A pose \in FrameInputs :
         surv_process_frame(pose) =>
           \A i \in EntryCalls(surv_out'.emitted) :
              LET e == surv_out'.emitted[i]
                  last == last_alert_time(alert_system,
                                          cooldown_key(e.alert_type, Some(e.person_id)))
                  earlier == \E j \in 1..(i - 1) :
                                /\ surv_out'.emitted[j].alert_type = e.alert_type
                                /\ surv_out'.emitted[j].person_id = e.person_id
                                /\ surv_out'.emitted[j].delivered
              IN /\ e.zone_id \in surv'.person_tracks[e.person_id].in_restricted_zones
                 /\ \E k \in 1..Len(surv'.alerts) :
                       /\ surv'.alerts[k].alert_type = e.alert_type
                       /\ surv'.alerts[k].person_id = e.person_id
                       /\ surv'.alerts[k].timestamp = now
                 /\ e.delivered <=>
                       /\ ~earlier
                       /\ now - last >= alert_system.config.alert_cooldown_seconds]_vars

\* C36 witness: the last frame has marked a zone for a track whose entry
\* into the other zone was delivered shortly before, and the alert of the
\* new entry was not delivered.
C36_Witness ==
    \E i \in EntryCalls(surv_out.emitted) :
       LET e == surv_out.emitted[i] IN
       /\ ~e.delivered
       /\ e.zone_id \in surv.person_tracks[e.person_id].in_restricted_zones
       /\ e.zone_id = 2
       /\ Len(alert_system.alert_history) >= 1

----------------------------------------------------------------------------
(* Properties of the transitions of the squat tracker.                     *)

\* C37: an update never takes the tracker from ASCENDING to DESCENDING: from
\* ASCENDING it stays there or commits STANDING or BOTTOM, and whenever
\* the committed state is DESCENDING the state before it is not ASCENDING.
C37_NoAscendingToDescending ==
    [][UpdateStep =>
         /\ sq.current_state = "ascending" =>
               sq'.current_state \in {"ascending", "standing", "bottom"}
         /\ sq'.current_state = "descending" => sq'.previous_state # "ascending"]_vars

\* C37 witness: the tracker has committed the move from ASCENDING back to
\* BOTTOM.
C37_Witness ==
    /\ sq.previous_state = "ascending"
    /\ sq.current_state = "bottom"


----------------------------------------------------------------------------
(* FitnessAnalyzer: the total of the reps and the mode                      *)

\* The last call was a process_frame made in a mode other than squat.
OtherFrame == fit_out.op = "process_frame" /\ fit_out.before.current_exercise # "squat"

TotalIsDetectorCount == fit.total_reps = fit.detectors[fit.current_exercise].rep_count

TotalChangesWithRep ==
    fit.total_reps # fit_out.before.total_reps => RepsCounted(fit_out.before, fit) > 0

TotalWithinCounted == fit.total_reps <= fit_out.counted + fit.squat_total

\* C38: in a mode other than squat, after every processed frame total_reps
\* equals the rep_count of the active detector: it changes only on a frame
\* in which a rep is completed and never exceeds the number of reps counted
\* in the session.
C38_TotalRepsOfActiveDetector ==
    OtherFrame => TotalIsDetectorCount /\ TotalChangesWithRep /\ TotalWithinCounted

\* C39: with auto-detection enabled, a process_frame call made while
\* current_exercise is squat leaves it squat, whatever the landmarks of the
\* frame; squat is left only through set_exercise_type.
C39_SquatLeftOnlyBySetExerciseType ==
    [][fit.current_exercise = "squat" /\ fit'.current_exercise # "squat"
          => /\ fit_out'.op = "set_exercise_type"
             /\ ~fit'.auto_detect]_vars

\* C39 witness: auto-detection is enabled, pushups were counted before squat
\* was entered by the auto-detection of a frame, and a frame has since been
\* processed in squat mode.
C39_Witness ==
    /\ fit.auto_detect
    /\ fit.current_exercise = "squat"
    /\ fit_out.op = "process_frame"
    /\ fit_out.before.current_exercise = "squat"
    /\ fit_out.before.auto_detect
    /\ fit.detectors["squat"].confidence > 0
    /\ fit.detectors["pushup"].rep_count > 0

----------------------------------------------------------------------------
(* SurveillanceAnalyzer: the people counted and the tracks                  *)

PeopleCounted(sv) ==
    /\ sv.total_people_detected = Cardinality(DOMAIN sv.person_tracks)
    /\ sv.total_people_detected = sv.next_person_id - 1

\* C40: in every state total_people_detected equals the number of entries of
\* person_tracks and next_person_id - 1; a step that removes a track is a
\* reset_session, which leaves no track, total_people_detected = 0 and
\* next_person_id = 1; every other step keeps all the tracks.
C40_PeopleCountedAreTracks ==
    [][/\ PeopleCounted(surv) => PeopleCounted(surv')
       /\ \/ DOMAIN surv.person_tracks \subseteq DOMAIN surv'.person_tracks
          \/ /\ surv'.person_tracks = SurveillanceAnalyzer_init.person_tracks
             /\ surv'.total_people_detected = SurveillanceAnalyzer_init.total_people_detected
             /\ surv'.next_person_id = SurveillanceAnalyzer_init.next_person_id]_vars

\* C40 witness: a session that follows a reset_session (the alert system
\* holds an alert older than track 1) has two tracks, one of them of a
\* person whom the latest frames have not shown.
C40_Witness ==
    /\ PeopleCounted(surv)
    /\ Cardinality(DOMAIN surv.person_tracks) >= 2
    /\ \E p \in DOMAIN surv.person_tracks : surv.person_tracks[p].last_seen < now
    /\ \E i \in 1..Len(alert_system.alert_history) :
          alert_system.alert_history[i].timestamp < surv.person_tracks[1].first_seen

====
